---- MODULE Spec2Model ----
(***************************************************************************)
(* A model of the ThinkOS backend engine: the job queue and the reembed    *)
(* worker, the memory-link store and the analytics cache, the unlock       *)
(* gate, the transcription retry and the enrichment workers, the chat      *)
(* stream, the executor, the event bus, the settings and the video        *)
(* memories.                                                               *)
(*                                                                         *)
(* The backend is one asyncio event loop plus one single-thread executor   *)
(* (db/core.py: _executor, run_sync).  A coroutine runs without            *)
(* interruption between two awaits; every blocking database operation is   *)
(* one function handed to the executor, so it is one atomic step.  Each    *)
(* action below is one such step: the database operation, followed by the  *)
(* synchronous code of the coroutine up to its next await.                 *)
(***************************************************************************)
EXTENDS Integers, Sequences, FiniteSets, TLC

(***************************************************************************)
(* Bounds of the model.                                                    *)
(***************************************************************************)
NumMem == 2
MaxJobs == 2
NumClients == 2
FewMem == 1
MaxBatch == 2
MaxLinkId == 4
MaxInit == 2
MaxTasks == 2
MaxReq == 3
MaxTokens == 2
MaxOps == 4
NumQueues == 2
MaxEvents == 2
NumThreads == 2
MaxReloads == 2

(***************************************************************************)
(* Program constants.                                                      *)
(***************************************************************************)
summary_batch_size == 5
embed_batch_size == 10
MaxAttempts == 3
ProgressCap == 99
ProgressDone == 100

MemIds == 1..NumMem
JobIds == 1..MaxJobs
Clients == 1..NumClients
Models == {"m1", "m2"}

VARIABLES
    jobs,           \* the jobs table: a sequence of rows, in creation order
    mem,            \* the memories table (the columns the reembed job reads)
    current_model,  \* get_current_embedding_model()
    cpc,            \* create_reembed_job: each client's position
    xpc,            \* cancel_job: the handler's position
    xjob,           \* cancel_job: the job it is cancelling
    wpc,            \* reembed_worker: each job's worker position
    wl              \* reembed_worker: each worker's local variables

VARIABLES
    links           \* the memory_links table

VARIABLES
    engine_key,     \* db/core.py _engine and _db_key: "none", or the key set
    db_file,        \* the database file: "none", or the key it is encrypted with
    initq,          \* the init_db calls whose setup_database is in the executor
    unlocked,       \* a setup or unlock has succeeded since the last logout
    last            \* the last request through the middlewares and its answer

VARIABLES
    task,           \* the enrichment workers started with asyncio.create_task
    events,         \* the events published on the event bus
    deleted,        \* the ids of the memories that were deleted
    ipc,            \* the ingest routes: each new memory's handler position
    upc,            \* update_memory_endpoint: the memory it is publishing for
    rpc,            \* retry_transcription: the handler's position
    rmem,           \* retry_transcription: its memory
    rlast           \* retry_transcription: what its last conditional UPDATE did

VARIABLES
    req,            \* the graph and link requests: each handler's position
    execq,          \* the executor's queue: the requests whose function waits
    ready,          \* the loop's callbacks: the requests whose function ended
    cache,          \* services/cache.py _analytics_cache
    commits,        \* the number of link mutations committed so far
    completed,      \* the commit number of the last link mutation answered
    served,         \* the last graph answer
    raced           \* the last commit that a graph read stored after it had missed

VARIABLES
    answer          \* the link store's last call: its arguments, its status,
                    \* the rows it found between the two memories and
                    \* whether it left the table as it was

VARIABLES
    blobs,          \* the blob store: the ids of the memories whose files it holds
    sources,        \* the message_sources table: the memory ids its rows cite
    chat,           \* the chat route: the memory it retrieved, 0 for none
    hpc             \* save_memory with a url: each client's handler position

VARIABLES
    stream,         \* chat_stream.generate: each client's generator
    conversation    \* the conversation of the streams: its row exists

VARIABLES
    ops,            \* the database operations called so far: how each was called
    pending,        \* the work queue of db/core.py _executor
    running,        \* the operation each thread is executing, 0 for none
    started         \* the operations in the order their execution began

VARIABLES
    subscribers,    \* events.py event_manager._subscribers
    closed,         \* the queues that were unsubscribed
    queue,          \* each subscriber's queue: the events put into it
    calls,          \* each publish call: its outcome and the subscribers
                    \* registered when it was made
    iter            \* the set iterator of the publish call on the pipe thread

VARIABLES
    settings,       \* config.py settings: the object installed last
    version,        \* config.py _settings_version
    lock,           \* config.py _settings_lock: its owner and its depth
    thread,         \* each thread inside reload_settings or
                    \* get_settings_with_version: its position and locals
    built,          \* the number of create_settings calls so far
    installed,      \* the object that the reload returning version v installed
    reloaded        \* the number of reloads that have written the version

jobVars == <<jobs, current_model, cpc, xpc, xjob, wpc, wl>>
linkVars == <<links, answer>>
authVars == <<engine_key, db_file, initq, unlocked, last>>
enrichVars == <<task, events, deleted, ipc, upc, rpc, rmem, rlast>>
cacheVars == <<req, execq, ready, cache, commits, completed, served, raced>>
storeVars == <<blobs, sources, chat, hpc>>
streamVars == <<stream, conversation>>
execVars == <<ops, pending, running, started>>
busVars == <<subscribers, closed, queue, calls, iter>>
configVars == <<settings, version, lock, thread, built, installed, reloaded>>
lateVars == <<streamVars, execVars, busVars, configVars>>
earlier == <<mem, jobVars, linkVars, authVars, enrichVars, cacheVars, storeVars>>

\* what the steps of one part of the backend leave alone
notJobs == <<linkVars, authVars, enrichVars, cacheVars, storeVars, lateVars>>
notLinks == <<jobVars, authVars, enrichVars, cacheVars, storeVars, lateVars>>
notAuth == <<mem, jobVars, linkVars, enrichVars, cacheVars, storeVars, lateVars>>
notStore == <<jobVars, linkVars, authVars, cacheVars, lateVars>>
notEnrich == <<notStore, storeVars>>
notCache == <<jobVars, linkVars, authVars, enrichVars, storeVars, lateVars>>
notCacheButLinks == <<jobVars, authVars, enrichVars, storeVars, lateVars>>
notStream == <<earlier, execVars, busVars, configVars>>
notExec == <<earlier, streamVars, busVars, configVars>>
notBus == <<earlier, streamVars, execVars, configVars>>
notConfig == <<earlier, streamVars, execVars, busVars>>

----------------------------------------------------------------------------
(***************************************************************************)
(* services/jobs.py: JobManager                                            *)
(***************************************************************************)
\* models.py Memory: a row of the memories table (a text column is TRUE
\* when it is set and not empty; url is TRUE when it is the url that the
\* clients of the model save; "null" is the NULL transcription_status)
NoMemory ==
    [exists |-> FALSE, type |-> "none", url |-> FALSE, content |-> FALSE,
     title |-> FALSE,
     summary |-> FALSE, tags |-> FALSE, audio_path |-> FALSE,
     transcript |-> FALSE, transcription_status |-> "null",
     embedding_summary |-> FALSE, embedding |-> FALSE,
     embedding_model |-> "none", processing_attempts |-> 0,
     video_processing_status |-> "null"]

\* db/crud/memories.py create_memory
create_memory(memory_type, hasContent, embedded, model) ==
    [NoMemory EXCEPT !.exists = TRUE, !.type = memory_type,
                     !.content = hasContent, !.embedding = embedded,
                     !.embedding_model = IF embedded THEN model ELSE "none"]

NewJob ==
    [status |-> "pending", progress |-> 0, processed |-> 0, failed |-> 0, total |-> 0]

NoLocals ==
    [total |-> 0, processed |-> 0, failed |-> 0, batch |-> <<>>, blen |-> 0,
     batch_processed |-> 0, batch_failed |-> 0]

\* create_job: a new row with status pending
create_job(js) == Append(js, NewJob)

\* update_job: only the given fields of the row change
update_job(js, j, updates) == [js EXCEPT ![j] = updates @@ @]

mark_started(js, j) == update_job(js, j, [status |-> "running"])

mark_completed(js, j) ==
    update_job(js, j, [status |-> "completed", progress |-> ProgressDone])

mark_failed(js, j) == update_job(js, j, [status |-> "failed"])

ActiveJobs(js) == {j \in 1..Len(js) : js[j].status \in {"pending", "running"}}

\* get_active_job: the most recent pending or running job, 0 for None
get_active_job(js) ==
    IF ActiveJobs(js) = {} THEN 0
    ELSE CHOOSE j \in ActiveJobs(js) : \A k \in ActiveJobs(js) : k <= j

----------------------------------------------------------------------------
(***************************************************************************)
(* db/crud/memories.py: the reprocessing queries                           *)
(***************************************************************************)
IdSeq == [i \in MemIds |-> i]

Take(s, n) == IF Len(s) <= n THEN s ELSE SubSeq(s, 1, n)

NeedsSummary(m) == m.exists /\ ~m.embedding_summary

NeedsEmbedding(m, model) ==
    /\ m.exists
    /\ m.embedding_summary
    /\ (~m.embedding \/ (m.embedding /\ m.embedding_model # model))

count_memories_needing_processing(ms, model) ==
    Cardinality({i \in MemIds : NeedsSummary(ms[i])})
    + Cardinality({i \in MemIds : NeedsEmbedding(ms[i], model)})

SummaryCandidate(i) ==
    NeedsSummary(mem[i]) /\ mem[i].processing_attempts < MaxAttempts

get_memories_without_embedding_summary(limit) ==
    Take(SelectSeq(IdSeq, SummaryCandidate), limit)

EmbeddingCandidate(i) == NeedsEmbedding(mem[i], current_model)

get_memories_needing_reembedding(limit) ==
    Take(SelectSeq(IdSeq, EmbeddingCandidate), limit)

\* the updates of one row: each returns False and writes nothing when the
\* row is gone
increment_processing_attempts(ms, i) ==
    IF ms[i].exists THEN [ms EXCEPT ![i].processing_attempts = @ + 1] ELSE ms

update_memory_embedding_summary(ms, i) ==
    IF ms[i].exists THEN [ms EXCEPT ![i].embedding_summary = TRUE] ELSE ms

\* the model is written only when one is given
update_memory_embedding(ms, i, model) ==
    IF ms[i].exists
        THEN [ms EXCEPT ![i].embedding = TRUE,
                        ![i].embedding_model = IF model # "none" THEN model ELSE @]
        ELSE ms

\* update_memory: with an embedding, the embedding and the given model are
\* written together; without one, both columns stay
update_memory(ms, i, hasContent, embedded, model) ==
    IF ms[i].exists
        THEN [ms EXCEPT ![i].content = hasContent,
                        ![i].embedding = IF embedded THEN TRUE ELSE @,
                        ![i].embedding_model = IF embedded THEN model ELSE @]
        ELSE ms

\* get_memory_by_url: a row with the url, if there is one
get_memory_by_url(ms) == \E i \in MemIds : ms[i].exists /\ ms[i].url

----------------------------------------------------------------------------
(***************************************************************************)
(* The memories a job runs over: ingest and a change of embedding model.   *)
(* Both happen before the first job is requested, so that the jobs run     *)
(* over a fixed set of memories.                                           *)
(***************************************************************************)
Quiet == Len(jobs) = 0 /\ \A c \in Clients : cpc[c] = "idle"

\* routes/memories.py save_memory: the embedding call may fail
SaveMemory(i, hasContent, embedded) ==
    /\ Quiet
    /\ ~mem[i].exists
    /\ \A k \in MemIds : k < i => mem[k].exists
    /\ mem' = [mem EXCEPT ![i] =
                 create_memory("web", hasContent, embedded, current_model)]
    /\ UNCHANGED <<notJobs, jobs, current_model, cpc, xpc, xjob, wpc, wl>>

\* routes/settings.py: the embedding model setting changes
SetEmbeddingModel(model) ==
    /\ Quiet
    /\ model # current_model
    /\ current_model' = model
    /\ UNCHANGED <<notJobs, jobs, mem, cpc, xpc, xjob, wpc, wl>>

----------------------------------------------------------------------------
(***************************************************************************)
(* routes/jobs.py: create_reembed_job and cancel_job                       *)
(***************************************************************************)
Creating == {c \in Clients : cpc[c] = "create"}

\* await get_active_job("reembed"): an active job is returned as it is
CreateCheck(c) ==
    /\ cpc[c] = "idle"
    /\ Len(jobs) + Cardinality(Creating) < MaxJobs
    /\ cpc' = [cpc EXCEPT ![c] = IF get_active_job(jobs) # 0 THEN "idle" ELSE "create"]
    /\ UNCHANGED <<notJobs, jobs, mem, current_model, xpc, xjob, wpc, wl>>

\* await create_job("reembed"); asyncio.create_task(reembed_worker(job_id))
CreateJob(c) ==
    /\ cpc[c] = "create"
    /\ jobs' = create_job(jobs)
    /\ wpc' = [wpc EXCEPT ![Len(jobs) + 1] = "start"]
    /\ cpc' = [cpc EXCEPT ![c] = "idle"]
    /\ UNCHANGED <<notJobs, mem, current_model, xpc, xjob, wl>>

\* job = await get_job(job_id); 400 unless it is pending or running.
\* A client learns the job id from a response, and the worker task hands
\* mark_started to the executor before any response is sent: the first
\* operation of the worker precedes every cancel of its job.
CancelCheck(j) ==
    /\ xpc = "idle"
    /\ j \in 1..Len(jobs)
    /\ wpc[j] # "start"
    /\ jobs[j].status \in {"pending", "running"}
    /\ xpc' = "update"
    /\ xjob' = j
    /\ UNCHANGED <<notJobs, jobs, mem, current_model, cpc, wpc, wl>>

\* await update_job(job_id, status=CANCELLED)
CancelUpdate ==
    /\ xpc = "update"
    /\ jobs' = update_job(jobs, xjob, [status |-> "cancelled"])
    /\ xpc' = "idle"
    /\ xjob' = 0
    /\ UNCHANGED <<notJobs, mem, current_model, cpc, wpc, wl>>

----------------------------------------------------------------------------
(***************************************************************************)
(* services/jobs.py: reembed_worker.  One action per awaited database      *)
(* operation; the LLM and embedding calls of an item are folded into the   *)
(* step that stores their result, their outcome being chosen freely.       *)
(***************************************************************************)
Progress(processed, failed, total) ==
    IF total > 0 THEN ((processed + failed) * 100) \div total ELSE ProgressDone

Min(a, b) == IF a <= b THEN a ELSE b

SetPc(j, pc) == wpc' = [wpc EXCEPT ![j] = pc]

\* await job_manager.mark_started(job_id)
WorkerStart(j) ==
    /\ wpc[j] = "start"
    /\ jobs' = mark_started(jobs, j)
    /\ SetPc(j, "count")
    /\ UNCHANGED <<notJobs, mem, current_model, cpc, xpc, xjob, wl>>

\* counts = await count_memories_needing_processing(current_model)
\* if total == 0: the job is completed at once
WorkerCount(j) ==
    /\ wpc[j] = "count"
    /\ LET total == count_memories_needing_processing(mem, current_model) IN
         /\ wl' = [wl EXCEPT ![j].total = total]
         /\ SetPc(j, IF total = 0 THEN "complete" ELSE "set_total")
    /\ UNCHANGED <<notJobs, jobs, mem, current_model, cpc, xpc, xjob>>

\* await job_manager.update_job(job_id, total=total); processed = failed = 0
WorkerSetTotal(j) ==
    /\ wpc[j] = "set_total"
    /\ jobs' = update_job(jobs, j, [total |-> wl[j].total])
    /\ SetPc(j, "p1_check")
    /\ UNCHANGED <<notJobs, mem, current_model, cpc, xpc, xjob, wl>>

\* Phase 1.  job = await get_job(job_id); break when it is cancelled
P1Check(j) ==
    /\ wpc[j] = "p1_check"
    /\ SetPc(j, IF jobs[j].status = "cancelled" THEN "p2_check" ELSE "p1_fetch")
    /\ UNCHANGED <<notJobs, jobs, mem, current_model, cpc, xpc, xjob, wl>>

\* memories = await get_memories_without_embedding_summary(limit=5)
P1Fetch(j) ==
    /\ wpc[j] = "p1_fetch"
    /\ LET memories == get_memories_without_embedding_summary(summary_batch_size) IN
         /\ wl' = [wl EXCEPT ![j].batch = memories, ![j].blen = Len(memories),
                             ![j].batch_processed = 0, ![j].batch_failed = 0]
         /\ SetPc(j, IF memories = <<>> THEN "p2_check" ELSE "p1_summary")
    /\ UNCHANGED <<notJobs, jobs, mem, current_model, cpc, xpc, xjob>>

\* the item failed: await increment_processing_attempts(id); batch_failed += 1
ItemFailed(j, countAttempt, nextItem, afterBatch) ==
    /\ mem' = IF countAttempt
              THEN increment_processing_attempts(mem, Head(wl[j].batch))
              ELSE mem
    /\ wl' = [wl EXCEPT ![j].batch = Tail(@), ![j].batch_failed = @ + 1]
    /\ SetPc(j, IF Tail(wl[j].batch) = <<>> THEN afterBatch ELSE nextItem)

\* the item succeeded: await update_memory_embedding(id, embedding, current_model)
ItemEmbedded(j, nextItem, afterBatch) ==
    /\ mem' = update_memory_embedding(mem, Head(wl[j].batch), current_model)
    /\ wl' = [wl EXCEPT ![j].batch = Tail(@), ![j].batch_processed = @ + 1]
    /\ SetPc(j, IF Tail(wl[j].batch) = <<>> THEN afterBatch ELSE nextItem)

\* no content, or generate_embedding_summary returned nothing
P1SummaryFail(j) ==
    /\ wpc[j] = "p1_summary"
    /\ ItemFailed(j, TRUE, "p1_summary", "p1_update")
    /\ UNCHANGED <<notJobs, jobs, current_model, cpc, xpc, xjob>>

\* await update_memory_embedding_summary(id, embedding_summary)
P1SummaryStore(j) ==
    /\ wpc[j] = "p1_summary"
    /\ mem[Head(wl[j].batch)].content
    /\ mem' = update_memory_embedding_summary(mem, Head(wl[j].batch))
    /\ SetPc(j, "p1_embed")
    /\ UNCHANGED <<notJobs, jobs, current_model, cpc, xpc, xjob, wl>>

\* embedding = await get_embedding(embedding_summary) raised
P1EmbedFail(j) ==
    /\ wpc[j] = "p1_embed"
    /\ ItemFailed(j, TRUE, "p1_summary", "p1_update")
    /\ UNCHANGED <<notJobs, jobs, current_model, cpc, xpc, xjob>>

P1EmbedStore(j) ==
    /\ wpc[j] = "p1_embed"
    /\ ItemEmbedded(j, "p1_summary", "p1_update")
    /\ UNCHANGED <<notJobs, jobs, current_model, cpc, xpc, xjob>>

\* where the model stops counting a job's failures: more than a job over
\* NumMem memories reaches
MaxCounted == NumMem * (MaxAttempts + NumMem)

\* the loop goes on after a batch in which every item failed
BatchUpdate_on(j, again, after) ==
    LET processed == wl[j].processed + wl[j].batch_processed
        failed == Min(wl[j].failed + wl[j].batch_failed, MaxCounted)
    IN  /\ jobs' = update_job(jobs, j,
                     [processed |-> processed, failed |-> failed,
                      progress |-> Min(Progress(processed, failed, wl[j].total),
                                       ProgressCap)])
        /\ wl' = [wl EXCEPT ![j].processed = processed, ![j].failed = failed]
        /\ SetPc(j, again)

\* processed += batch_processed; failed += batch_failed;
\* await update_job(processed, failed, progress=min(progress, 99));
\* a batch in which every item failed ends the phase
BatchUpdate(j, again, after) ==
    LET processed == wl[j].processed + wl[j].batch_processed
        failed == Min(wl[j].failed + wl[j].batch_failed, MaxCounted)
    IN  /\ jobs' = update_job(jobs, j,
                     [processed |-> processed, failed |-> failed,
                      progress |-> Min(Progress(processed, failed, wl[j].total),
                                       ProgressCap)])
        /\ wl' = [wl EXCEPT ![j].processed = processed, ![j].failed = failed]
        /\ SetPc(j, IF wl[j].batch_processed = 0 /\ wl[j].batch_failed = wl[j].blen
                    THEN after ELSE again)

P1Update(j) ==
    /\ wpc[j] = "p1_update"
    /\ BatchUpdate(j, "p1_check", "p2_check")
    /\ UNCHANGED <<notJobs, mem, current_model, cpc, xpc, xjob>>

\* Phase 2.  job = await get_job(job_id); break when it is cancelled
P2Check(j) ==
    /\ wpc[j] = "p2_check"
    /\ SetPc(j, IF jobs[j].status = "cancelled" THEN "complete" ELSE "p2_fetch")
    /\ UNCHANGED <<notJobs, jobs, mem, current_model, cpc, xpc, xjob, wl>>

\* memories = await get_memories_needing_reembedding(current_model, limit=10)
P2Fetch(j) ==
    /\ wpc[j] = "p2_fetch"
    /\ LET memories == get_memories_needing_reembedding(embed_batch_size) IN
         /\ wl' = [wl EXCEPT ![j].batch = memories, ![j].blen = Len(memories),
                             ![j].batch_processed = 0, ![j].batch_failed = 0]
         /\ SetPc(j, IF memories = <<>> THEN "complete" ELSE "p2_embed")
    /\ UNCHANGED <<notJobs, jobs, mem, current_model, cpc, xpc, xjob>>

\* get_embedding raised: batch_failed += 1, the attempts are not counted
P2EmbedFail(j) ==
    /\ wpc[j] = "p2_embed"
    /\ ItemFailed(j, FALSE, "p2_embed", "p2_update")
    /\ UNCHANGED <<notJobs, jobs, current_model, cpc, xpc, xjob>>

P2EmbedStore(j) ==
    /\ wpc[j] = "p2_embed"
    /\ ItemEmbedded(j, "p2_embed", "p2_update")
    /\ UNCHANGED <<notJobs, jobs, current_model, cpc, xpc, xjob>>

P2Update(j) ==
    /\ wpc[j] = "p2_update"
    /\ BatchUpdate(j, "p2_check", "complete")
    /\ UNCHANGED <<notJobs, mem, current_model, cpc, xpc, xjob>>

\* await job_manager.mark_completed(job_id, {...}): reached after both loops,
\* whichever way they were left
WorkerComplete(j) ==
    /\ wpc[j] = "complete"
    /\ jobs' = mark_completed(jobs, j)
    /\ SetPc(j, "done")
    /\ wl' = [wl EXCEPT ![j] = NoLocals]
    /\ UNCHANGED <<notJobs, mem, current_model, cpc, xpc, xjob>>

\* an awaited database operation outside the per-item try raises
RaisePcs == {"count", "set_total", "p1_check", "p1_fetch", "p1_update",
             "p2_check", "p2_fetch", "p2_update"}

WorkerRaise(j) ==
    /\ wpc[j] \in RaisePcs
    /\ SetPc(j, "mark_failed")
    /\ UNCHANGED <<notJobs, jobs, mem, current_model, cpc, xpc, xjob, wl>>

\* except Exception: await job_manager.mark_failed(job_id, str(e))
WorkerMarkFailed(j) ==
    /\ wpc[j] = "mark_failed"
    /\ jobs' = mark_failed(jobs, j)
    /\ SetPc(j, "done")
    /\ wl' = [wl EXCEPT ![j] = NoLocals]
    /\ UNCHANGED <<notJobs, mem, current_model, cpc, xpc, xjob>>

Worker(j) ==
    \/ WorkerStart(j)
    \/ WorkerCount(j)
    \/ WorkerSetTotal(j)
    \/ P1Check(j)
    \/ P1Fetch(j)
    \/ P1SummaryFail(j)
    \/ P1SummaryStore(j)
    \/ P1EmbedFail(j)
    \/ P1EmbedStore(j)
    \/ P1Update(j)
    \/ P2Check(j)
    \/ P2Fetch(j)
    \/ P2EmbedFail(j)
    \/ P2EmbedStore(j)
    \/ P2Update(j)
    \/ WorkerComplete(j)
    \/ WorkerRaise(j)
    \/ WorkerMarkFailed(j)

----------------------------------------------------------------------------
(***************************************************************************)
(* db/crud/links.py: the memory links.  Every operation is one function    *)
(* handed to the executor, so one transaction and one step.  The           *)
(* memory_links table is a set of rows with an id, the two memory ids, the *)
(* link type and the optional relevance score.                             *)
(***************************************************************************)
LinkTypes == {"manual", "auto"}
\* relevance_score in hundredths: <<>> is None, <<x>> is the score x/100
NoScore == <<>>
Scores == {NoScore, <<50>>, <<150>>}
Confidences == {<<50>>}

MaxOf(S) == CHOOSE x \in S : \A y \in S : y <= x

\* the id the table gives the next row
NextLinkId(rows) ==
    IF rows = {} THEN 1 ELSE 1 + MaxOf({r.id : r \in rows})

MemoryLink(id, source_id, target_id, link_type, relevance_score) ==
    [id |-> id, source_memory_id |-> source_id, target_memory_id |-> target_id,
     link_type |-> link_type, relevance_score |-> relevance_score]

\* the check for an existing link finds nothing
LinksBetween_none(rows, source_id, target_id) == {}

\* the rows between two memories, in either direction
LinksBetween(rows, source_id, target_id) ==
    {r \in rows :
        \/ r.source_memory_id = source_id /\ r.target_memory_id = target_id
        \/ r.source_memory_id = target_id /\ r.target_memory_id = source_id}

\* session.add of the forward and of the backward row
AddBothRows(rows, source_id, target_id, link_type, relevance_score) ==
    LET n == NextLinkId(rows) IN
    rows \cup {MemoryLink(n, source_id, target_id, link_type, relevance_score),
               MemoryLink(n + 1, target_id, source_id, link_type, relevance_score)}

ValidScore(relevance_score) ==
    relevance_score = NoScore
        \/ (0 <= relevance_score[1] /\ relevance_score[1] <= 100)

\* _create of create_link: the status of the answer and the table afterwards
create_link(rows, ms, source_id, target_id, link_type, relevance_score) ==
    IF ~ms[source_id].exists \/ ~ms[target_id].exists
        THEN [status |-> 404, rows |-> rows]
    ELSE IF source_id = target_id
        THEN [status |-> 400, rows |-> rows]
    ELSE IF LinksBetween(rows, source_id, target_id) # {}
        THEN [status |-> 409, rows |-> rows]
    ELSE IF ~ValidScore(relevance_score)
        THEN [status |-> 400, rows |-> rows]
    ELSE [status |-> 200,
          rows |-> AddBothRows(rows, source_id, target_id, link_type,
                               relevance_score)]

\* _delete of delete_link
delete_link(rows, source_id, target_id) ==
    IF LinksBetween(rows, source_id, target_id) = {}
        THEN [status |-> 404, rows |-> rows]
        ELSE [status |-> 200,
              rows |-> rows \ LinksBetween(rows, source_id, target_id)]

\* _create of batch_create_links: the pairs in order, in one session whose
\* queries see the rows added before them.  A pair with a row in either
\* direction fails (scalar_one_or_none returns it, or raises on two rows and
\* the SQLAlchemyError is caught); a pair whose memories exist is added.
RECURSIVE batch_loop(_, _, _, _, _)
batch_loop(rows, ms, link_pairs, created, failed) ==
    IF link_pairs = <<>>
        THEN [created |-> created, failed |-> failed, rows |-> rows]
    ELSE LET source_id == Head(link_pairs)[1]
             target_id == Head(link_pairs)[2]
             confidence == Head(link_pairs)[3]
         IN IF \/ LinksBetween(rows, source_id, target_id) # {}
               \/ ~ms[source_id].exists
               \/ ~ms[target_id].exists
            THEN batch_loop(rows, ms, Tail(link_pairs), created, failed + 1)
            ELSE batch_loop(AddBothRows(rows, source_id, target_id, "auto",
                                        confidence),
                            ms, Tail(link_pairs), created + 1, failed)

batch_create_links(rows, ms, link_pairs) ==
    batch_loop(rows, ms, link_pairs, 0, 0)

\* the requests of a batch: one to MaxBatch pairs
LinkPairs == MemIds \X MemIds \X Confidences
Batches == UNION {[1..n -> LinkPairs] : n \in 1..MaxBatch}

\* the three operations on their own, each one transaction; the ids stay
\* within the bound of the model
IdsInRange(rows) == \A r \in rows : r.id <= MaxLinkId

NoLinkAnswer ==
    [op |-> "none", status |-> 0, source_id |-> 0, target_id |-> 0,
     found |-> 0, unchanged |-> TRUE]

\* the rows of the table whose two ends are the two memories
Joining(rows, source_id, target_id) ==
    {r \in rows :
        {r.source_memory_id, r.target_memory_id} = {source_id, target_id}}

\* what the caller of an operation was answered, and what the operation
\* did to the table it ran on
LinkAnswer(op, status, source_id, target_id) ==
    [op |-> op, status |-> status, source_id |-> source_id,
     target_id |-> target_id,
     found |-> Cardinality(Joining(links, source_id, target_id)),
     unchanged |-> (links' = links)]

CreateLink(source_id, target_id, link_type, relevance_score) ==
    /\ links' = create_link(links, mem, source_id, target_id, link_type,
                            relevance_score).rows
    /\ IdsInRange(links')
    /\ answer' = LinkAnswer("create_link",
                            create_link(links, mem, source_id, target_id,
                                        link_type, relevance_score).status,
                            source_id, target_id)
    /\ UNCHANGED <<mem, notLinks>>

DeleteLink(source_id, target_id) ==
    /\ links' = delete_link(links, source_id, target_id).rows
    /\ answer' = LinkAnswer("delete_link",
                            delete_link(links, source_id, target_id).status,
                            source_id, target_id)
    /\ UNCHANGED <<mem, notLinks>>

BatchCreateLinks(link_pairs) ==
    /\ links' = batch_create_links(links, mem, link_pairs).rows
    /\ IdsInRange(links')
    /\ answer' = LinkAnswer("batch_create_links", 200, 0, 0)
    /\ UNCHANGED <<mem, notLinks>>

----------------------------------------------------------------------------
(***************************************************************************)
(* main.py, routes/auth.py, db/core.py: the unlock gate.                   *)
(***************************************************************************)
PUBLIC_PATHS ==
    {"/health", "/api/auth/status", "/api/auth/setup", "/api/auth/unlock"}
Paths == PUBLIC_PATHS \cup {"/api/memories"}
Methods == {"GET", "OPTIONS"}
Passwords == {"p1", "p2"}
Tokens == {"", "t"}

\* services/secrets.py: one key for each password
derive_db_key(password) == IF password = "p1" THEN "k1" ELSE "k2"

is_db_initialized == engine_key # "none"
db_exists == db_file # "none"

NoRequest ==
    [path |-> "", method |-> "", status |-> 0, token_ok |-> FALSE,
     locked |-> FALSE, initializing |-> FALSE]

\* require_app_token_middleware, then require_unlock_middleware; 200 stands
\* for the answer of the route
Answer(path, method, app_token, request_token) ==
    IF method = "OPTIONS" THEN 200
    ELSE IF app_token # "" /\ request_token # app_token THEN 401
    ELSE IF path \notin PUBLIC_PATHS /\ ~is_db_initialized THEN 403
    ELSE 200

Request(path, method, app_token, request_token) ==
    /\ last' = [path |-> path, method |-> method,
                status |-> Answer(path, method, app_token, request_token),
                token_ok |-> (app_token = "" \/ request_token = app_token),
                locked |-> ~unlocked, initializing |-> (initq # <<>>)]
    /\ UNCHANGED <<engine_key, db_file, initq, unlocked, notAuth>>

\* init_db up to its await: init_engine sets the engine and the key
init_engine(db_key, kind) ==
    /\ Len(initq) < MaxInit
    /\ engine_key' = db_key
    /\ initq' = Append(initq, kind)
    /\ UNCHANGED <<db_file, unlocked, last, notAuth>>

\* POST /api/auth/setup: 400 once the file exists
SetupStart(password) ==
    /\ ~db_exists
    /\ init_engine(derive_db_key(password), "setup")

\* POST /api/auth/unlock: 400 while there is no file
UnlockStart(password) ==
    /\ db_exists
    /\ init_engine(derive_db_key(password), "unlock")

\* setup_database in the executor, with the engine as it is by then, and the
\* rest of the handler: a file opened with another key raises, which unlock
\* answers with 401 and setup with 500; nothing resets the engine
InitRun ==
    /\ initq # <<>>
    /\ initq' = Tail(initq)
    /\ IF engine_key = "none"
         THEN /\ unlocked' = TRUE
              /\ UNCHANGED db_file
       ELSE IF ~db_exists
         THEN /\ db_file' = engine_key
              /\ unlocked' = TRUE
       ELSE IF db_file = engine_key
         THEN /\ unlocked' = TRUE
              /\ UNCHANGED db_file
       ELSE UNCHANGED <<db_file, unlocked>>
    /\ UNCHANGED <<engine_key, last, notAuth>>

\* POST /api/auth/logout: reset_db_connection
Logout ==
    /\ engine_key' = "none"
    /\ unlocked' = FALSE
    /\ UNCHANGED <<db_file, initq, last, notAuth>>

----------------------------------------------------------------------------
(***************************************************************************)
(* routes/memories.py, routes/media.py, routes/document.py and             *)
(* services/ai/processing.py: ingest, update, delete, the transcription    *)
(* retry and the enrichment workers, with the events they publish.         *)
(***************************************************************************)
TaskIds == 1..MaxTasks
MediaTypes == {"voice_memo", "audio"}

NoTask ==
    [kind |-> "none", memory_id |-> 0, origin |-> "none", pc |-> "none",
     memory_type |-> "none", title |-> FALSE, summary |-> FALSE,
     embedding_summary |-> FALSE, tags |-> FALSE, updated |-> FALSE,
     wrote |-> FALSE, published |-> FALSE]

\* an event on the bus; committed: the write it reports took effect
MemoryEvent(type, memory_id, committed) ==
    [type |-> type, memory_id |-> memory_id, committed |-> committed]

\* event_manager.publish: the subscribers' queues are unbounded, so it never
\* waits
publish(evs, event) == evs \cup {event}

FreeTasks == {t \in TaskIds : task[t].kind = "none"}

\* the handlers that have yet to start a worker
Reserved ==
    Cardinality({i \in MemIds : ipc[i] \in {"media", "document", "audio",
                                           "audio_saved"}})
    + (IF rpc = "idle" THEN 0 ELSE 1)

CanReserve == Cardinality(FreeTasks) > Reserved

\* asyncio.create_task(process_..._async(memory_id))
create_task(ts, kind, memory_id, origin) ==
    LET t == CHOOSE x \in FreeTasks : \A y \in FreeTasks : x <= y IN
    [ts EXCEPT ![t] = [NoTask EXCEPT !.kind = kind, !.memory_id = memory_id,
                                     !.origin = origin, !.pc = "get"]]

\* A request that names a memory comes from a client that was sent its id,
\* in the answer of the ingest route or in its MEMORY_CREATED event.  The
\* worker that the ingest route started has handed its first call to the
\* executor by then, so this call runs before the request's.
Announced(i) ==
    /\ \E e \in events : e.memory_id = i
    /\ \A t \in TaskIds :
          ~(task[t].memory_id = i /\ task[t].origin = "ingest"
                /\ task[t].pc = "get")

\* the next id of the memories table
FreshId(i) ==
    /\ ~mem[i].exists
    /\ i \notin deleted
    /\ ipc[i] = "none"
    /\ \A k \in MemIds : k < i => (mem[k].exists \/ k \in deleted)

\* the two ways in: the HTTP routes and the native messaging channel
Channels == {"http", "ipc"}

\* the embedding_model argument of the channel's create_memory and
\* update_memory calls: native_messaging.py passes the embedding alone
ModelArgument(via) == IF via = "http" THEN current_model ELSE "none"

\* POST /api/memories and memories.create with a url, up to the answer of
\* get_memory_by_url: a duplicate is returned as it is, otherwise the
\* handler goes on to await the embedding call
UrlCheck(c) ==
    /\ hpc[c] = "idle"
    /\ hpc' = [hpc EXCEPT ![c] = IF get_memory_by_url(mem) THEN "idle" ELSE "embed"]
    /\ UNCHANGED <<mem, enrichVars, notStore, blobs, sources, chat>>

\* POST /api/memories and memories.create from the embedding call up to the
\* last await: create_memory, then the worker is started when there is
\* content.  c is the client whose request carries the url, 0 for a request
\* without one, which skips the check.
SaveCreate(c, i, memory_type, hasContent, embedded, via) ==
    /\ c # 0 => hpc[c] = "embed"
    /\ FreshId(i)
    /\ hasContent => CanReserve
    /\ mem' = [mem EXCEPT ![i] =
                 [create_memory(memory_type, hasContent, embedded,
                                ModelArgument(via)) EXCEPT !.url = (c # 0)]]
    /\ task' = IF hasContent THEN create_task(task, "web", i, "ingest") ELSE task
    /\ ipc' = [ipc EXCEPT ![i] = "saved"]
    /\ hpc' = IF c # 0 THEN [hpc EXCEPT ![c] = "idle"] ELSE hpc
    /\ UNCHANGED <<events, deleted, upc, rpc, rmem, rlast, notStore, blobs,
                   sources, chat>>

\* ... get_memory and MEMORY_CREATED
SavePublish(i) ==
    /\ ipc[i] = "saved"
    /\ events' = publish(events, MemoryEvent("memory_created", i, TRUE))
    /\ ipc' = [ipc EXCEPT ![i] = "none"]
    /\ UNCHANGED <<mem, task, deleted, upc, rpc, rmem, rlast, notEnrich>>

\* POST /api/media/record and /upload: save_audio_file, then
\* create_media_memory
MediaCreate(i, memory_type) ==
    /\ FreshId(i)
    /\ CanReserve
    /\ mem' = [mem EXCEPT ![i] =
                 [NoMemory EXCEPT !.exists = TRUE, !.type = memory_type,
                                  !.audio_path = TRUE,
                                  !.transcription_status = "pending"]]
    /\ ipc' = [ipc EXCEPT ![i] = "media"]
    /\ blobs' = blobs \cup {i}
    /\ UNCHANGED <<task, events, deleted, upc, rpc, rmem, rlast, notStore,
                   sources, chat, hpc>>

\* ... get_memory, MEMORY_CREATED, then the worker is started
MediaPublish(i) ==
    /\ ipc[i] = "media"
    /\ events' = publish(events, MemoryEvent("memory_created", i, TRUE))
    /\ task' = create_task(task, "voice", i, "ingest")
    /\ ipc' = [ipc EXCEPT ![i] = "none"]
    /\ UNCHANGED <<mem, deleted, upc, rpc, rmem, rlast, notEnrich>>

\* POST /api/documents/upload: save_document_file, then
\* create_document_memory with the extracted text
DocumentCreate(i) ==
    /\ FreshId(i)
    /\ CanReserve
    /\ mem' = [mem EXCEPT ![i] =
                 [NoMemory EXCEPT !.exists = TRUE, !.type = "document",
                                  !.content = TRUE]]
    /\ ipc' = [ipc EXCEPT ![i] = "document"]
    /\ blobs' = blobs \cup {i}
    /\ UNCHANGED <<task, events, deleted, upc, rpc, rmem, rlast, notStore,
                   sources, chat, hpc>>

DocumentPublish(i) ==
    /\ ipc[i] = "document"
    /\ events' = publish(events, MemoryEvent("memory_created", i, TRUE))
    /\ task' = create_task(task, "document", i, "ingest")
    /\ ipc' = [ipc EXCEPT ![i] = "none"]
    /\ UNCHANGED <<mem, deleted, upc, rpc, rmem, rlast, notEnrich>>

\* PUT /api/memories/{id} and memories.update: update_memory, 404 when the
\* row is gone
UpdateWrite(i, hasContent, embedded, via) ==
    /\ upc = 0
    /\ Announced(i)
    /\ mem[i].exists
    /\ mem' = update_memory(mem, i, hasContent, embedded, ModelArgument(via))
    /\ upc' = i
    /\ UNCHANGED <<task, events, deleted, ipc, rpc, rmem, rlast, notEnrich>>

\* ... get_memory and MEMORY_UPDATED
UpdatePublish ==
    /\ upc # 0
    /\ events' = publish(events, MemoryEvent("memory_updated", upc, TRUE))
    /\ upc' = 0
    /\ UNCHANGED <<mem, task, deleted, ipc, rpc, rmem, rlast, notEnrich>>

\* db/core.py _on_connect: the connection is given PRAGMA key and nothing
\* else, so foreign_keys keeps SQLite's default, OFF
foreign_keys == FALSE

\* session.delete(memory) and commit, as seen from message_sources: the
\* ON DELETE CASCADE of models.py MessageSource.memory_id acts only with
\* foreign_keys on, and Memory has no relationship to its MessageSource rows
delete_cascade(srcs, i) == IF foreign_keys THEN srcs \ {i} ELSE srcs

\* DELETE /api/memories/{id}: delete_memory, 404 when the row is gone, then
\* MEMORY_DELETED
RemoveMemory(i) ==
    /\ Announced(i)
    /\ mem[i].exists
    /\ mem' = [mem EXCEPT ![i] = NoMemory]
    /\ deleted' = deleted \cup {i}
    /\ sources' = delete_cascade(sources, i)
    /\ events' = publish(events, MemoryEvent("memory_deleted", i, TRUE))
    /\ UNCHANGED <<task, ipc, upc, rpc, rmem, rlast, notStore, blobs, chat, hpc>>

\* DELETE /api/media/{id}: delete_media_memory deletes the row of any type
\* and returns its audio_path; with one the file is deleted and
\* MEMORY_DELETED published, without one the answer is 404
DeleteMedia(i) ==
    /\ Announced(i)
    /\ mem[i].exists
    /\ mem' = [mem EXCEPT ![i] = NoMemory]
    /\ deleted' = deleted \cup {i}
    /\ sources' = delete_cascade(sources, i)
    /\ blobs' = IF mem[i].audio_path THEN blobs \ {i} ELSE blobs
    /\ events' = IF mem[i].audio_path
                    THEN publish(events, MemoryEvent("memory_deleted", i, TRUE))
                    ELSE events
    /\ UNCHANGED <<task, ipc, upc, rpc, rmem, rlast, notStore, chat, hpc>>

\* DELETE /api/documents/{id}: delete_document_memory, 404 unless the row is
\* a document, then the document file and the thumbnail are deleted and
\* MEMORY_DELETED published
DeleteDocument(i) ==
    /\ Announced(i)
    /\ mem[i].exists
    /\ mem[i].type = "document"
    /\ mem' = [mem EXCEPT ![i] = NoMemory]
    /\ deleted' = deleted \cup {i}
    /\ sources' = delete_cascade(sources, i)
    /\ blobs' = blobs \ {i}
    /\ events' = publish(events, MemoryEvent("memory_deleted", i, TRUE))
    /\ UNCHANGED <<task, ipc, upc, rpc, rmem, rlast, notStore, chat, hpc>>

\* POST /api/chat up to the answer of search_similar_memories: the memory
\* that the message's sources will cite
ChatSearch(i) ==
    /\ chat = 0
    /\ mem[i].exists
    /\ chat' = i
    /\ UNCHANGED <<mem, enrichVars, notStore, blobs, sources, hpc>>

\* ... get_conversation, ai_chat, then add_message with the sources: a
\* MessageSource row for the retrieved memory, which the insert does not
\* look up; with foreign_keys on, a row for a missing memory fails the commit
ChatAnswer ==
    /\ chat # 0
    /\ sources' = IF foreign_keys /\ ~mem[chat].exists
                     THEN sources
                     ELSE sources \cup {chat}
    /\ chat' = 0
    /\ UNCHANGED <<mem, enrichVars, notStore, blobs, hpc>>

\* db/crud/media.py get_media_memory: None unless a voice memo or an audio
get_media_memory(ms, i) == ms[i].exists /\ ms[i].type \in MediaTypes

\* db/crud/media.py reset_transcription_status_if_not_processing: the rows
\* that UPDATE ... WHERE id = i AND transcription_status != 'processing'
\* matches; the comparison is not true of a NULL status
ResetMatches(ms, i) ==
    /\ ms[i].exists
    /\ ms[i].transcription_status # "null"
    /\ ms[i].transcription_status # "processing"

reset_transcription_status_if_not_processing(ms, i) ==
    IF ResetMatches(ms, i)
        THEN [ms EXCEPT ![i].transcription_status = "pending"]
        ELSE ms

StatusOf(ms, i) == IF ms[i].exists THEN ms[i].transcription_status ELSE "gone"

NoRetry == [memory_id |-> 0, before |-> "gone", after |-> "gone", rejected |-> FALSE]

\* POST /api/media/{id}/retry: get_media_memory, 404 when there is none
RetryGet(i) ==
    /\ rpc = "idle"
    /\ CanReserve
    /\ Announced(i)
    /\ get_media_memory(mem, i)
    /\ rpc' = "reset"
    /\ rmem' = i
    /\ UNCHANGED <<mem, task, events, deleted, ipc, upc, rlast, notEnrich>>

\* ... the conditional UPDATE; 400 when it changed no row
RetryReset ==
    /\ rpc = "reset"
    /\ mem' = reset_transcription_status_if_not_processing(mem, rmem)
    /\ rlast' = [memory_id |-> rmem, before |-> StatusOf(mem, rmem),
                 after |-> StatusOf(mem', rmem),
                 rejected |-> ~ResetMatches(mem, rmem)]
    /\ rpc' = IF ResetMatches(mem, rmem) THEN "publish" ELSE "idle"
    /\ UNCHANGED <<task, events, deleted, ipc, upc, rmem, notEnrich>>

\* ... get_media_memory, MEMORY_UPDATED, then the worker is started
RetryPublish ==
    /\ rpc = "publish"
    /\ events' = publish(events, MemoryEvent("memory_updated", rmem, TRUE))
    /\ task' = create_task(task, "voice", rmem, "retry")
    /\ rpc' = "idle"
    /\ UNCHANGED <<mem, deleted, ipc, upc, rmem, rlast, notEnrich>>

(***************************************************************************)
(* routes/video.py: the upload of a video, of the audio the client has     *)
(* extracted from it, and the retry.  No route calls                       *)
(* update_video_processing_status, so the status is written by             *)
(* create_video_memory and update_video_audio alone.                       *)
(***************************************************************************)
\* db/crud/media.py create_video_memory: no audio yet, the transcription
\* status is left NULL
create_video_memory ==
    [NoMemory EXCEPT !.exists = TRUE, !.type = "video",
                     !.video_processing_status = "pending_extraction"]

get_video_memory(ms, i) == ms[i].exists /\ ms[i].type = "video"

\* db/crud/media.py update_video_audio, whatever the two statuses were
update_video_audio(ms, i) ==
    IF get_video_memory(ms, i)
        THEN [ms EXCEPT ![i].audio_path = TRUE,
                        ![i].transcription_status = "pending",
                        ![i].video_processing_status = "ready"]
        ELSE ms

\* POST /api/video/upload: save_video_file, then create_video_memory
VideoCreate(i) ==
    /\ FreshId(i)
    /\ mem' = [mem EXCEPT ![i] = create_video_memory]
    /\ ipc' = [ipc EXCEPT ![i] = "video"]
    /\ blobs' = blobs \cup {i}
    /\ UNCHANGED <<task, events, deleted, upc, rpc, rmem, rlast, notStore,
                   sources, chat, hpc>>

\* ... get_memory and MEMORY_CREATED; no worker is started
VideoPublish(i) ==
    /\ ipc[i] = "video"
    /\ events' = publish(events, MemoryEvent("memory_created", i, TRUE))
    /\ ipc' = [ipc EXCEPT ![i] = "none"]
    /\ UNCHANGED <<mem, task, deleted, upc, rpc, rmem, rlast, notEnrich>>

\* POST /api/video/{id}/audio: get_video_memory, 404 when there is none;
\* neither status is looked at
AudioGet(i) ==
    /\ ipc[i] = "none"
    /\ CanReserve
    /\ Announced(i)
    /\ get_video_memory(mem, i)
    /\ ipc' = [ipc EXCEPT ![i] = "audio"]
    /\ UNCHANGED <<mem, task, events, deleted, upc, rpc, rmem, rlast, notEnrich>>

\* ... save_audio_file, then update_video_audio, its answer ignored
AudioWrite(i) ==
    /\ ipc[i] = "audio"
    /\ mem' = update_video_audio(mem, i)
    /\ ipc' = [ipc EXCEPT ![i] = "audio_saved"]
    /\ UNCHANGED <<task, events, deleted, upc, rpc, rmem, rlast, notEnrich>>

\* ... get_video_memory, MEMORY_UPDATED, then the worker is started
AudioPublish(i) ==
    /\ ipc[i] = "audio_saved"
    /\ events' = publish(events, MemoryEvent("memory_updated", i, mem[i].exists))
    /\ task' = create_task(task, "voice", i, "upload")
    /\ ipc' = [ipc EXCEPT ![i] = "none"]
    /\ UNCHANGED <<mem, deleted, upc, rpc, rmem, rlast, notEnrich>>

\* POST /api/video/{id}/retry: get_video_memory, 404 when there is none,
\* 400 when it has no audio; it goes on as the retry of a recording does
VideoRetryGet(i) ==
    /\ rpc = "idle"
    /\ CanReserve
    /\ Announced(i)
    /\ get_video_memory(mem, i)
    /\ mem[i].audio_path
    /\ rpc' = "reset"
    /\ rmem' = i
    /\ UNCHANGED <<mem, task, events, deleted, ipc, upc, rlast, notEnrich>>

(***************************************************************************)
(* The three workers.  A step is one awaited call and the code up to the   *)
(* next one.  The results of the language model are TRUE when not empty.   *)
(***************************************************************************)
VoiceTypes == {"voice_memo", "audio", "voice", "video"}

\* where a run goes after its last update: the web worker publishes only
\* when it has updated something
EndPc(r) ==
    IF r.kind = "voice" THEN "completed"
    ELSE IF r.kind = "document" \/ r.updated THEN "final"
    ELSE "done"

AfterEmbed(r) == IF r.tags THEN "add_tags" ELSE EndPc(r)
AfterSummary(r) == IF r.embedding_summary THEN "emb_summary" ELSE AfterEmbed(r)
AfterTitle(r) == IF r.summary THEN "summary" ELSE AfterSummary(r)
AfterGather(r) == IF r.title THEN "title" ELSE AfterTitle(r)

\* a run that has ended keeps no local variable
Ended(ts) ==
    [t \in TaskIds |->
        IF ts[t].pc = "done"
            THEN [NoTask EXCEPT !.kind = ts[t].kind, !.memory_id = ts[t].memory_id,
                                !.origin = ts[t].origin, !.pc = "done",
                                !.published = ts[t].published]
            ELSE ts[t]]

EnrichFrame == UNCHANGED <<deleted, ipc, upc, rpc, rmem, rlast, notEnrich>>

\* memory = await get_memory(memory_id) and the checks on it
\* save_memory starts the worker and, before the worker first runs, hands
\* its own get_memory to the executor; the one executor thread answers that
\* call before the worker's first and the loop resumes the coroutines in
\* that order, so the handler publishes before the worker goes on
HandlerAhead(r) == r.origin = "ingest" /\ ipc[r.memory_id] = "saved"

WorkerGet(t) ==
    LET r == task[t]
        m == mem[r.memory_id]
        go == IF ~m.exists THEN "done"
              ELSE IF r.kind = "web"
                  THEN (IF m.content THEN "tags" ELSE "done")
              ELSE IF r.kind = "document"
                  THEN (IF m.type = "document" /\ m.content THEN "tags" ELSE "done")
              ELSE IF m.type \notin VoiceTypes THEN "done"
              ELSE IF ~m.audio_path THEN "status_failed"
              ELSE "processing"
    IN /\ r.pc = "get"
       /\ ~HandlerAhead(r)
       /\ task' = Ended([task EXCEPT ![t].pc = go, ![t].memory_type = m.type])
       /\ UNCHANGED <<mem, events>>
       /\ EnrichFrame

update_transcription_status(ms, i, status) ==
    IF ms[i].exists THEN [ms EXCEPT ![i].transcription_status = status] ELSE ms

\* update_transcription_status(..., status) and the MEMORY_UPDATED after it
StatusStep(t, at, status, go) ==
    LET r == task[t] IN
    /\ r.pc = at
    /\ mem' = update_transcription_status(mem, r.memory_id, status)
    /\ events' = publish(events, MemoryEvent("memory_updated", r.memory_id,
                                             mem[r.memory_id].exists))
    /\ task' = Ended([task EXCEPT ![t].pc = go, ![t].published = TRUE])
    /\ EnrichFrame

VoiceProcessing(t) == StatusStep(t, "processing", "processing", "transcribe")
VoiceStatusFailed(t) == StatusStep(t, "status_failed", "failed", "done")
VoiceExcept(t) == StatusStep(t, "except", "failed", "done")

\* transcribe_audio: a transcript, or an empty one
VoiceTranscribe(t, transcribed) ==
    /\ task[t].pc = "transcribe"
    /\ task' = [task EXCEPT ![t].pc =
                  IF transcribed THEN "transcript" ELSE "status_failed"]
    /\ UNCHANGED <<mem, events>>
    /\ EnrichFrame

\* one update of the row, its return value ignored
UpdateStep(t, at, column, setsUpdated, go) ==
    LET r == task[t]
        i == r.memory_id
    IN /\ r.pc = at
       /\ mem' = IF mem[i].exists THEN [mem EXCEPT ![i][column] = TRUE] ELSE mem
       /\ task' = Ended([task EXCEPT ![t] =
                           [r EXCEPT !.updated = @ \/ setsUpdated,
                                     !.wrote = @ \/ mem[i].exists,
                                     !.pc = go]])
       /\ UNCHANGED events
       /\ EnrichFrame

\* the task once `updated = True` has run
Updated(t) == [task[t] EXCEPT !.updated = TRUE]

VoiceTranscript(t) == UpdateStep(t, "transcript", "transcript", FALSE, "tags")
WorkerTitle(t) ==
    UpdateStep(t, "title", "title", TRUE, AfterTitle(Updated(t)))
WorkerSummary(t) ==
    UpdateStep(t, "summary", "summary", TRUE, AfterSummary(Updated(t)))
WorkerEmbSummary(t) ==
    UpdateStep(t, "emb_summary", "embedding_summary", TRUE, "embed")
WorkerAddTags(t) ==
    UpdateStep(t, "add_tags", "tags", TRUE, EndPc(Updated(t)))

\* all_tags = await get_all_tags()
WorkerTags(t) ==
    /\ task[t].pc = "tags"
    /\ task' = [task EXCEPT ![t].pc = "gather"]
    /\ UNCHANGED <<mem, events>>
    /\ EnrichFrame

\* results = await asyncio.gather(*tasks); the web worker asks for a title
\* only when the memory has an original_title (a web page)
WorkerGather(t, title, summary, embedding_summary, tags) ==
    LET r == task[t]
        r2 == [r EXCEPT !.title = title, !.summary = summary,
                        !.embedding_summary = embedding_summary,
                        !.tags = tags, !.updated = FALSE]
    IN /\ r.pc = "gather"
       /\ (r.kind = "web" /\ r.memory_type # "web") => ~title
       /\ task' = Ended([task EXCEPT ![t] = [r2 EXCEPT !.pc = AfterGather(r2)]])
       /\ UNCHANGED <<mem, events>>
       /\ EnrichFrame

\* get_embedding and update_memory_embedding, in their own try
WorkerEmbed(t, embedded) ==
    LET r == task[t]
        i == r.memory_id
    IN /\ r.pc = "embed"
       /\ mem' = IF embedded THEN update_memory_embedding(mem, i, current_model)
                             ELSE mem
       /\ task' = Ended([task EXCEPT
                         ![t].pc = AfterEmbed(r),
                         ![t].wrote = @ \/ (embedded /\ mem[i].exists)])
       /\ UNCHANGED events
       /\ EnrichFrame

\* the voice worker: update_transcription_status(memory_id, "completed")
VoiceCompleted(t) ==
    LET r == task[t] IN
    /\ r.pc = "completed"
    /\ mem' = update_transcription_status(mem, r.memory_id, "completed")
    /\ task' = [task EXCEPT ![t].pc = "final",
                            ![t].wrote = @ \/ mem[r.memory_id].exists]
    /\ UNCHANGED events
    /\ EnrichFrame

\* updated_memory = await get_memory(memory_id) and MEMORY_UPDATED
WorkerFinal(t) ==
    LET r == task[t] IN
    /\ r.pc = "final"
    /\ events' = publish(events, MemoryEvent("memory_updated", r.memory_id,
                                             r.wrote))
    /\ task' = Ended([task EXCEPT ![t].pc = "done", ![t].published = TRUE])
    /\ UNCHANGED mem
    /\ EnrichFrame

\* an awaited call raises: the web and the document worker log it; the
\* voice worker sets the status failed, and gives up when that raises too
EnrichRaisePcs == {"tags", "gather", "transcribe", "final", "except"}

WorkerException(t) ==
    LET r == task[t] IN
    /\ r.pc \in EnrichRaisePcs
    /\ task' = Ended([task EXCEPT ![t].pc =
                  IF r.kind = "voice" /\ r.pc # "except" THEN "except" ELSE "done"])
    /\ UNCHANGED <<mem, events>>
    /\ EnrichFrame

EnrichWorker(t) ==
    \/ WorkerGet(t)
    \/ VoiceProcessing(t)
    \/ VoiceStatusFailed(t)
    \/ VoiceExcept(t)
    \/ \E transcribed \in BOOLEAN : VoiceTranscribe(t, transcribed)
    \/ VoiceTranscript(t)
    \/ WorkerTags(t)
    \/ \E title \in BOOLEAN, summary \in BOOLEAN,
          embedding_summary \in BOOLEAN, tags \in BOOLEAN :
          WorkerGather(t, title, summary, embedding_summary, tags)
    \/ WorkerTitle(t)
    \/ WorkerSummary(t)
    \/ WorkerEmbSummary(t)
    \/ \E embedded \in BOOLEAN : WorkerEmbed(t, embedded)
    \/ WorkerAddTags(t)
    \/ VoiceCompleted(t)
    \/ WorkerFinal(t)
    \/ WorkerException(t)

----------------------------------------------------------------------------
(***************************************************************************)
(* services/cache.py, db/crud/graph.py, routes/links.py,                   *)
(* routes/insights.py: the analytics cache and the link mutations, on the  *)
(* event loop and the executor.                                            *)
(*                                                                         *)
(* run_sync hands a function to the executor, whose one thread takes the   *)
(* functions in the order they were handed in (execq).  A finished         *)
(* function wakes its coroutine through loop.call_soon_threadsafe, and the *)
(* loop runs its callbacks in the order they were added (ready).           *)
(***************************************************************************)
ReqIds == 1..MaxReq

\* the filters the graph routes pass on: memory_type and date_range absent
CacheFilters == BOOLEAN

\* json.dumps of the three parameters, sort_keys, then md5, taken as
\* injective: the key is the text that is hashed
_generate_cache_key(memory_type, date_range, include_isolated) ==
    <<"date_range", date_range, "include_isolated", include_isolated,
      "memory_type", memory_type>>

CacheKeys ==
    {_generate_cache_key("null", "null", include_isolated) :
        include_isolated \in CacheFilters}

\* the pairs a link request names
LinkEnds == {p \in MemIds \X MemIds : p[1] < p[2]}

\* tuple(sorted([source_memory_id, target_memory_id]))
SortedPair(a, b) == IF a <= b THEN <<a, b>> ELSE <<b, a>>

\* _get of get_graph_data: the memories, less the isolated ones if asked,
\* and the links between them, one per pair
get_graph_data(rows, ms, include_isolated) ==
    LET memory_ids == {i \in MemIds : ms[i].exists}
        connected == {i \in memory_ids :
                         \E r \in rows : r.source_memory_id = i
                                            \/ r.target_memory_id = i}
        nodes == IF include_isolated THEN memory_ids ELSE connected
    IN [nodes |-> nodes,
        links |-> {SortedPair(r.source_memory_id, r.target_memory_id) : r \in
                     {q \in rows : /\ q.source_memory_id \in nodes
                                   /\ q.target_memory_id \in nodes}}]

NoData == [nodes |-> {}, links |-> {}]

\* an entry of _analytics_cache; read_at is the number of link mutations
\* committed when its data was read
NoEntry == [present |-> FALSE, data |-> NoData, read_at |-> 0]

CacheEntry(data, read_at) ==
    [present |-> TRUE, data |-> data, read_at |-> read_at]

\* the cache left as it is: what a route that forgot to clear it would do
invalidate_analytics_cache_kept(c) == c

\* _analytics_cache.clear()
invalidate_analytics_cache(c) == [k \in CacheKeys |-> NoEntry]

\* a request: its handler's position and local variables
NoReq ==
    [kind |-> "none", pc |-> "none", include_isolated |-> FALSE,
     source_id |-> 0, target_id |-> 0, ok |-> FALSE, data |-> NoData,
     read_at |-> 0, arrived_at |-> 0]

DoneReq == [NoReq EXCEPT !.pc = "done"]

\* no graph answer yet; completed is the last mutation answered when the
\* request arrived
NoAnswer == [from_cache |-> FALSE, read_at |-> 0, completed |-> 0]

NextReq(r) == req[r].pc = "none" /\ \A q \in ReqIds : q < r => req[q].pc # "none"

\* get_cached_graph_data up to its await: a hit is answered at once, a miss
\* hands _get to the executor
GraphArrive(r, include_isolated) ==
    LET cache_key == _generate_cache_key("null", "null", include_isolated) IN
    /\ NextReq(r)
    /\ IF cache[cache_key].present
          THEN /\ served' = [from_cache |-> TRUE,
                             read_at |-> cache[cache_key].read_at,
                             completed |-> completed]
               /\ req' = [req EXCEPT ![r] = DoneReq]
               /\ UNCHANGED execq
          ELSE /\ req' = [req EXCEPT ![r] =
                            [NoReq EXCEPT !.kind = "graph", !.pc = "queued",
                                          !.include_isolated = include_isolated,
                                          !.arrived_at = completed]]
               /\ execq' = Append(execq, r)
               /\ UNCHANGED served
    /\ UNCHANGED <<mem, notCache, ready, cache, commits, completed, raced>>

\* create_memory_link, delete_memory_link and create_auto_links up to their
\* await of run_sync
LinkArrive(r, kind, source_id, target_id) ==
    /\ NextReq(r)
    /\ req' = [req EXCEPT ![r] =
                 [NoReq EXCEPT !.kind = kind, !.pc = "queued",
                               !.source_id = source_id,
                               !.target_id = target_id]]
    /\ execq' = Append(execq, r)
    /\ UNCHANGED <<mem, notCache, ready, cache, commits, completed, served,
                   raced>>

\* the executor runs the function at the head of its queue: one session, one
\* transaction.  A link mutation that commits is counted.
ExecRun ==
    /\ execq # <<>>
    /\ LET r == Head(execq)
           q == req[r]
           created == create_link(links, mem, q.source_id, q.target_id,
                                  "manual", NoScore)
           removed == delete_link(links, q.source_id, q.target_id)
           batch == batch_create_links(links, mem,
                        <<<<q.source_id, q.target_id, <<50>>>>>>)
           rows == CASE q.kind = "create" -> created.rows
                     [] q.kind = "delete" -> removed.rows
                     [] q.kind = "batch" -> batch.rows
                     [] OTHER -> links
           ok == CASE q.kind = "create" -> created.status = 200
                   [] q.kind = "delete" -> removed.status = 200
                   [] q.kind = "batch" -> batch.created > 0
                   [] OTHER -> TRUE
           wrote == q.kind # "graph" /\ ok
       IN /\ links' = rows
          /\ IdsInRange(rows)
          /\ commits' = IF wrote THEN commits + 1 ELSE commits
          /\ req' = [req EXCEPT ![r] =
                       [q EXCEPT !.pc = "ran", !.ok = ok,
                                 !.data = IF q.kind = "graph"
                                     THEN get_graph_data(links, mem,
                                                         q.include_isolated)
                                     ELSE NoData,
                                 !.read_at = commits']]
          /\ execq' = Tail(execq)
          /\ ready' = Append(ready, r)
    /\ UNCHANGED <<mem, notCacheButLinks, answer, cache, completed, served, raced>>

\* the events create_link and delete_link publish once _create or _delete
\* has returned
LinkEvents(q) ==
    IF q.kind \in {"create", "delete"} /\ q.ok
        THEN {MemoryEvent("memory_updated", q.source_id, TRUE),
              MemoryEvent("memory_updated", q.target_id, TRUE)}
        ELSE {}

\* the loop wakes the coroutine at the head of its callbacks, which runs to
\* its end: get_cached_graph_data stores what it read and answers; a link
\* route whose mutation took effect clears the cache and answers
Resume ==
    /\ ready # <<>>
    /\ LET r == Head(ready)
           q == req[r]
           cache_key == _generate_cache_key("null", "null", q.include_isolated)
       IN /\ ready' = Tail(ready)
          /\ req' = [req EXCEPT ![r] = DoneReq]
          /\ IF q.kind = "graph"
                THEN /\ cache' = [cache EXCEPT ![cache_key] =
                                    CacheEntry(q.data, q.read_at)]
                     /\ served' = [from_cache |-> FALSE, read_at |-> q.read_at,
                                   completed |-> q.arrived_at]
                     /\ raced' = IF q.read_at < commits THEN commits ELSE raced
                     /\ UNCHANGED <<completed, events>>
                ELSE /\ cache' = IF q.ok THEN invalidate_analytics_cache(cache)
                                         ELSE cache
                     /\ completed' = IF q.ok /\ q.read_at > completed
                                         THEN q.read_at ELSE completed
                     /\ events' = events \cup LinkEvents(q)
                     /\ UNCHANGED <<served, raced>>
    /\ UNCHANGED <<mem, jobVars, linkVars, authVars, task, deleted, ipc, upc,
                   rpc, rmem, rlast, execq, commits, storeVars, lateVars>>

\* an entry reaches its time to live (ttl=300) and is dropped
CacheExpire(cache_key) ==
    /\ cache[cache_key].present
    /\ cache' = [cache EXCEPT ![cache_key] = NoEntry]
    /\ UNCHANGED <<mem, notCache, req, execq, ready, commits, completed,
                   served, raced>>

----------------------------------------------------------------------------
----------------------------------------------------------------------------
(***************************************************************************)
(* routes/chat.py chat_stream: the generator of one streamed answer.  The  *)
(* handler has stored the user message in the conversation before the      *)
(* generator first runs.  Each step runs the generator up to its next       *)
(* yield or await.                                                          *)
(***************************************************************************)
\* frames: what generate() yielded so far; saved: what its add_message
\* calls stored; failed: ai_chat_stream raised
NoStream ==
    [pc |-> "start", frames |-> <<>>, saved |-> <<>>, tokens |-> 0,
     failed |-> FALSE]

\* db/crud/conversations.py add_message as the generator sees it: None, and
\* nothing stored, when the conversation is gone
add_message(saved, exists, what) == IF exists THEN Append(saved, what) ELSE saved

\* yield the meta frame
StreamMeta(c) ==
    /\ stream[c].pc = "start"
    /\ stream' = [stream EXCEPT ![c].frames = Append(@, "meta"),
                                ![c].pc = "tokens"]
    /\ UNCHANGED <<conversation, notStream>>

\* ai_chat_stream gives a token: yield a token frame
StreamToken(c) ==
    /\ stream[c].pc = "tokens"
    /\ stream[c].tokens < MaxTokens
    /\ stream' = [stream EXCEPT ![c].frames = Append(@, "token"),
                                ![c].tokens = @ + 1]
    /\ UNCHANGED <<conversation, notStream>>

\* ai_chat_stream ends: add_message with the full response
StreamSave(c) ==
    /\ stream[c].pc = "tokens"
    /\ stream' = [stream EXCEPT
                    ![c].saved = add_message(@, conversation, "response"),
                    ![c].pc = "done"]
    /\ UNCHANGED <<conversation, notStream>>

\* yield the done frame; the generator ends
StreamDone(c) ==
    /\ stream[c].pc = "done"
    /\ stream' = [stream EXCEPT ![c].frames = Append(@, "done"),
                                ![c].pc = "end"]
    /\ UNCHANGED <<conversation, notStream>>

\* ai_chat_stream raises (APIConnectionError or another Exception):
\* add_message with the error message
StreamFail(c) ==
    /\ stream[c].pc = "tokens"
    /\ stream' = [stream EXCEPT
                    ![c].failed = TRUE,
                    ![c].saved = add_message(@, conversation, "error"),
                    ![c].pc = "error"]
    /\ UNCHANGED <<conversation, notStream>>

\* yield the error frame; the generator ends
StreamError(c) ==
    /\ stream[c].pc = "error"
    /\ stream' = [stream EXCEPT ![c].frames = Append(@, "error"),
                                ![c].pc = "end"]
    /\ UNCHANGED <<conversation, notStream>>

\* DELETE /api/conversations/{id}: delete_conversation
DeleteConversation ==
    /\ conversation
    /\ conversation' = FALSE
    /\ UNCHANGED <<stream, notStream>>

NextStream ==
       \/ \E c \in Clients : StreamMeta(c)
       \/ \E c \in Clients : StreamToken(c)
       \/ \E c \in Clients : StreamSave(c)
       \/ \E c \in Clients : StreamDone(c)
       \/ \E c \in Clients : StreamFail(c)
       \/ \E c \in Clients : StreamError(c)
       \/ DeleteConversation

----------------------------------------------------------------------------
(***************************************************************************)
(* db/core.py run_sync and config.py load_settings_from_db: where a        *)
(* database operation runs.  The database is unlocked throughout, as it is *)
(* for the settings routes that reload.                                    *)
(***************************************************************************)
OpIds == 1..MaxOps
DbThreads == {"executor", "loop"}

\* a coroutine on the loop calls run_sync(func):
\* loop.run_in_executor(_executor, func) puts func into the work queue
RunSync ==
    /\ running["loop"] = 0
    /\ Len(ops) < MaxOps
    /\ ops' = Append(ops, "run_sync")
    /\ pending' = Append(pending, Len(ops) + 1)
    /\ UNCHANGED <<running, started, notExec>>

\* ThreadPoolExecutor(max_workers=1): its one thread takes the head of the
\* queue when it is idle
ExecutorTake ==
    /\ running["executor"] = 0
    /\ pending # <<>>
    /\ running' = [running EXCEPT !["executor"] = Head(pending)]
    /\ pending' = Tail(pending)
    /\ started' = Append(started, Head(pending))
    /\ UNCHANGED <<ops, notExec>>

\* ... and func returns
ExecutorReturn ==
    /\ running["executor"] # 0
    /\ running' = [running EXCEPT !["executor"] = 0]
    /\ UNCHANGED <<ops, pending, started, notExec>>

\* a handler on the loop calls reload_settings(): create_settings calls
\* load_settings_from_db, which opens a session and queries the settings
\* table on the calling thread
LoadSettings ==
    /\ running["loop"] = 0
    /\ Len(ops) < MaxOps
    /\ ops' = Append(ops, "load_settings_from_db")
    /\ running' = [running EXCEPT !["loop"] = Len(ops) + 1]
    /\ started' = Append(started, Len(ops) + 1)
    /\ UNCHANGED <<pending, notExec>>

\* ... and the query returns
LoadSettingsReturn ==
    /\ running["loop"] # 0
    /\ running' = [running EXCEPT !["loop"] = 0]
    /\ UNCHANGED <<ops, pending, started, notExec>>

NextExec ==
       \/ RunSync
       \/ ExecutorTake
       \/ ExecutorReturn
       \/ LoadSettings
       \/ LoadSettingsReturn

----------------------------------------------------------------------------
(***************************************************************************)
(* events.py EventManager.  The SSE route subscribes and unsubscribes on   *)
(* the server's loop.  publish is called on that loop by the routes and    *)
(* the workers and, where the native messaging server runs its own loop in *)
(* a thread of its own (native_messaging_win.py), on that thread.          *)
(***************************************************************************)
QueueIds == 1..NumQueues
EventIds == 1..MaxEvents

NoCall == [status |-> "none", registered |-> {}]
NoIter == [event |-> 0, used |-> 0, visited |-> {}]

\* the number of times event e was put into the queue q
Count(q, e) == Cardinality({k \in 1..Len(queue[q]) : queue[q][k] = e})

NextEvent == CHOOSE e \in EventIds : /\ calls[e].status = "none"
                                     /\ \A x \in EventIds : x < e => calls[x].status # "none"

\* event_stream: queue = event_manager.subscribe(), a new asyncio.Queue()
Subscribe(q) ==
    /\ q \notin subscribers \cup closed
    /\ \A x \in QueueIds : x < q => x \in subscribers \cup closed
    /\ subscribers' = subscribers \cup {q}
    /\ UNCHANGED <<closed, queue, calls, iter, notBus>>

\* event_stream, finally: event_manager.unsubscribe(queue)
Unsubscribe(q) ==
    /\ q \in subscribers
    /\ subscribers' = subscribers \ {q}
    /\ closed' = closed \cup {q}
    /\ UNCHANGED <<queue, calls, iter, notBus>>

\* publish on the server's loop: put on a queue without a bound never
\* waits, so the for loop runs to its end before another task of the loop
PublishOnLoop ==
    /\ \E e \in EventIds : calls[e].status = "none"
    /\ queue' = [q \in QueueIds |->
                   IF q \in subscribers THEN Append(queue[q], NextEvent)
                                        ELSE queue[q]]
    /\ calls' = [calls EXCEPT ![NextEvent] =
                   [status |-> "done", registered |-> subscribers]]
    /\ UNCHANGED <<subscribers, closed, iter, notBus>>

\* publish on the pipe thread: for queue in self._subscribers makes an
\* iterator of the set itself
PublishOnThread ==
    /\ iter = NoIter
    /\ \E e \in EventIds : calls[e].status = "none"
    /\ iter' = [event |-> NextEvent, used |-> Cardinality(subscribers),
                visited |-> {}]
    /\ calls' = [calls EXCEPT ![NextEvent] =
                   [status |-> "running", registered |-> subscribers]]
    /\ UNCHANGED <<subscribers, closed, queue, notBus>>

\* ... the iterator's next: RuntimeError when the set has changed its size
IterRaise ==
    /\ iter # NoIter
    /\ Cardinality(subscribers) # iter.used
    /\ calls' = [calls EXCEPT ![iter.event].status = "failed"]
    /\ iter' = NoIter
    /\ UNCHANGED <<subscribers, closed, queue, notBus>>

\* ... otherwise an entry it has not passed, and await queue.put(event)
IterPut(q) ==
    /\ iter # NoIter
    /\ Cardinality(subscribers) = iter.used
    /\ q \in subscribers \ iter.visited
    /\ queue' = [queue EXCEPT ![q] = Append(@, iter.event)]
    /\ iter' = [iter EXCEPT !.visited = @ \cup {q}]
    /\ UNCHANGED <<subscribers, closed, calls, notBus>>

\* ... or the end of the table; an entry added meanwhile may lie behind it
IterEnd ==
    /\ iter # NoIter
    /\ Cardinality(subscribers) = iter.used
    /\ (subscribers \ iter.visited) \cap calls[iter.event].registered = {}
    /\ calls' = [calls EXCEPT ![iter.event].status = "done"]
    /\ iter' = NoIter
    /\ UNCHANGED <<subscribers, closed, queue, notBus>>

NextBus ==
       \/ \E q \in QueueIds : Subscribe(q)
       \/ \E q \in QueueIds : Unsubscribe(q)
       \/ PublishOnLoop
       \/ PublishOnThread
       \/ IterRaise
       \/ \E q \in QueueIds : IterPut(q)
       \/ IterEnd

----------------------------------------------------------------------------
(***************************************************************************)
(* config.py: reload_settings and get_settings_with_version, called by the *)
(* threads of the two loops.  A settings object is named by the number of  *)
(* the create_settings call that built it; 0 is the one built at import.   *)
(***************************************************************************)
Threads == 1..NumThreads

NoThread == [pc |-> "idle", object |-> 0, seen |-> 0, answer |-> <<0, 0>>]

\* with _settings_lock: a threading.RLock is free for its owner too
CanAcquire_always(t) == TRUE
CanAcquire(t) == lock.owner \in {0, t}

Acquire(t) == [owner |-> t, depth |-> lock.depth + 1]
Release == IF lock.depth = 1 THEN [owner |-> 0, depth |-> 0]
                             ELSE [lock EXCEPT !.depth = @ - 1]

ConfigStep(t, at, go) ==
    /\ thread[t].pc = at
    /\ thread' = [thread EXCEPT ![t].pc = go]

\* reload_settings: with _settings_lock
ReloadEnter(t) ==
    /\ reloaded + Cardinality({x \in Threads : thread[x].pc \in
                                  {"create", "read", "write", "leave"}}) < MaxReloads
    /\ CanAcquire(t)
    /\ ConfigStep(t, "idle", "create")
    /\ lock' = Acquire(t)
    /\ UNCHANGED <<settings, version, built, installed, reloaded, notConfig>>

\* settings = create_settings()
ReloadCreate(t) ==
    /\ thread[t].pc = "create"
    /\ built' = built + 1
    /\ settings' = built + 1
    /\ thread' = [thread EXCEPT ![t].pc = "read", ![t].object = built + 1]
    /\ UNCHANGED <<version, lock, installed, reloaded, notConfig>>

\* _settings_version += 1: the load of the global
ReloadRead(t) ==
    /\ thread[t].pc = "read"
    /\ thread' = [thread EXCEPT ![t].pc = "write", ![t].seen = version]
    /\ UNCHANGED <<settings, version, lock, built, installed, reloaded, notConfig>>

\* ... and the store of the sum
ReloadWrite(t) ==
    /\ thread[t].pc = "write"
    /\ version' = thread[t].seen + 1
    /\ installed' = [installed EXCEPT ![thread[t].seen + 1] = thread[t].object]
    /\ reloaded' = reloaded + 1
    /\ thread' = [thread EXCEPT ![t].pc = "leave"]
    /\ UNCHANGED <<settings, lock, built, notConfig>>

\* return _settings_version, and the end of the with block
ReloadLeave(t) ==
    /\ ConfigStep(t, "leave", "idle")
    /\ lock' = Release
    /\ UNCHANGED <<settings, version, built, installed, reloaded, notConfig>>

\* get_settings_with_version: with _settings_lock
SnapshotEnter(t) ==
    /\ CanAcquire(t)
    /\ ConfigStep(t, "idle", "settings")
    /\ lock' = Acquire(t)
    /\ UNCHANGED <<settings, version, built, installed, reloaded, notConfig>>

\* return settings, _settings_version: the load of settings
SnapshotSettings(t) ==
    /\ thread[t].pc = "settings"
    /\ thread' = [thread EXCEPT ![t].pc = "version", ![t].object = settings]
    /\ UNCHANGED <<settings, version, lock, built, installed, reloaded, notConfig>>

\* ... the load of _settings_version, and the end of the with block
SnapshotVersion(t) ==
    /\ thread[t].pc = "version"
    /\ thread' = [thread EXCEPT ![t].pc = "idle",
                                ![t].answer = <<thread[t].object, version>>]
    /\ lock' = Release
    /\ UNCHANGED <<settings, version, built, installed, reloaded, notConfig>>

NextConfig ==
       \/ \E t \in Threads : ReloadEnter(t)
       \/ \E t \in Threads : ReloadCreate(t)
       \/ \E t \in Threads : ReloadRead(t)
       \/ \E t \in Threads : ReloadWrite(t)
       \/ \E t \in Threads : ReloadLeave(t)
       \/ \E t \in Threads : SnapshotEnter(t)
       \/ \E t \in Threads : SnapshotSettings(t)
       \/ \E t \in Threads : SnapshotVersion(t)

vars == <<earlier, lateVars>>

\* the backend once started: an empty database that is locked, no request
\* under way, no worker, an empty cache
Init ==
    /\ jobs = <<>>
    /\ mem = [i \in MemIds |-> NoMemory]
    /\ current_model = "m1"
    /\ cpc = [c \in Clients |-> "idle"]
    /\ xpc = "idle"
    /\ xjob = 0
    /\ wpc = [j \in JobIds |-> "none"]
    /\ wl = [j \in JobIds |-> NoLocals]
    /\ links = {}
    /\ answer = NoLinkAnswer
    /\ engine_key = "none"
    /\ db_file = "none"
    /\ initq = <<>>
    /\ unlocked = FALSE
    /\ last = NoRequest
    /\ task = [t \in TaskIds |-> NoTask]
    /\ events = {}
    /\ deleted = {}
    /\ ipc = [i \in MemIds |-> "none"]
    /\ upc = 0
    /\ rpc = "idle"
    /\ rmem = 0
    /\ rlast = NoRetry
    /\ req = [r \in ReqIds |-> NoReq]
    /\ execq = <<>>
    /\ ready = <<>>
    /\ cache = [k \in CacheKeys |-> NoEntry]
    /\ commits = 0
    /\ completed = 0
    /\ served = NoAnswer
    /\ raced = 0
    /\ blobs = {}
    /\ sources = {}
    /\ chat = 0
    /\ hpc = [c \in Clients |-> "idle"]
    /\ stream = [c \in Clients |-> NoStream]
    /\ conversation = TRUE
    /\ ops = <<>>
    /\ pending = <<>>
    /\ running = [th \in DbThreads |-> 0]
    /\ started = <<>>
    /\ subscribers = {}
    /\ closed = {}
    /\ queue = [q \in QueueIds |-> <<>>]
    /\ calls = [e \in EventIds |-> NoCall]
    /\ iter = NoIter
    /\ settings = 0
    /\ version = 0
    /\ lock = [owner |-> 0, depth |-> 0]
    /\ thread = [t \in Threads |-> NoThread]
    /\ built = 0
    /\ installed = [v \in 0..MaxReloads |-> 0]
    /\ reloaded = 0

\* every request, over at most FewMem memories
NextJobs ==
       \/ \E i \in 1..FewMem, hasContent \in BOOLEAN, embedded \in BOOLEAN :
             SaveMemory(i, hasContent, embedded)
       \/ \E model \in Models : SetEmbeddingModel(model)
       \/ \E c \in Clients : CreateCheck(c)
       \/ \E c \in Clients : CreateJob(c)
       \/ \E j \in JobIds : CancelCheck(j)
       \/ CancelUpdate
       \/ \E j \in JobIds : Worker(j)

SpecJobs == Init /\ [][NextJobs]_vars

\* one reembed job, requested once, and the requests to cancel it
FirstRequest(c) == Len(jobs) = 0 /\ Creating = {} /\ CreateCheck(c)

NextReembed ==
       \/ \E i \in MemIds, hasContent \in BOOLEAN, embedded \in BOOLEAN :
             SaveMemory(i, hasContent, embedded)
       \/ \E model \in Models : SetEmbeddingModel(model)
       \/ FirstRequest(1)
       \/ CreateJob(1)
       \/ CancelCheck(1)
       \/ CancelUpdate
       \/ Worker(1)

SpecReembed == Init /\ [][NextReembed]_vars

\* reembed jobs one after the other, requested by one client and never
\* cancelled: nothing but the worker changes the database while a job runs
NextFullJob ==
       \/ \E i \in MemIds, hasContent \in BOOLEAN, embedded \in BOOLEAN :
             SaveMemory(i, hasContent, embedded)
       \/ \E model \in Models : SetEmbeddingModel(model)
       \/ CreateCheck(1)
       \/ CreateJob(1)
       \/ \E j \in JobIds : Worker(j)

SpecFullJob == Init /\ [][NextFullJob]_vars

\* ... with the loop running the worker whenever it has a step to take: each
\* of the worker's awaits returns or raises
FairReembed == SpecReembed /\ WF_vars(Worker(1))

\* the link operations over the saved memories
NextLinks ==
       \/ \E i \in MemIds : SaveMemory(i, TRUE, FALSE)
       \/ \E source_id \in MemIds, target_id \in MemIds,
             link_type \in LinkTypes, relevance_score \in Scores :
             CreateLink(source_id, target_id, link_type, relevance_score)
       \/ \E source_id \in MemIds, target_id \in MemIds :
             DeleteLink(source_id, target_id)
       \/ \E link_pairs \in Batches : BatchCreateLinks(link_pairs)

SpecLinks == Init /\ [][NextLinks]_vars

\* The link store called one pair at a time: a batch of several pairs
\* leaves the table that its pairs leave as batches of their own, one after
\* the other, since each pair's query sees the rows added before it.
NextLinkCalls ==
       \/ \E i \in MemIds : SaveMemory(i, TRUE, FALSE)
       \/ \E source_id \in MemIds, target_id \in MemIds,
             link_type \in LinkTypes, relevance_score \in Scores :
             CreateLink(source_id, target_id, link_type, relevance_score)
       \/ \E source_id \in MemIds, target_id \in MemIds :
             DeleteLink(source_id, target_id)
       \/ \E pair \in LinkPairs : BatchCreateLinks(<<pair>>)

SpecLinkCalls == Init /\ [][NextLinkCalls]_vars

\* the requests that pass the middlewares, and the auth routes
NextAuth ==
       \/ \E path \in Paths, method \in Methods,
             app_token \in Tokens, request_token \in Tokens :
             Request(path, method, app_token, request_token)
       \/ \E password \in Passwords : SetupStart(password)
       \/ \E password \in Passwords : UnlockStart(password)
       \/ InitRun
       \/ Logout

SpecAuth == Init /\ [][NextAuth]_vars

\* ingest, update, delete, retry and the workers, over at most FewMem memories
NextEnrich ==
       \/ \E i \in 1..FewMem, memory_type \in {"web", "note", "audio"},
             hasContent \in BOOLEAN :
             SaveCreate(0, i, memory_type, hasContent, FALSE, "http")
       \/ \E i \in 1..FewMem : SavePublish(i)
       \/ \E i \in 1..FewMem, memory_type \in MediaTypes : MediaCreate(i, memory_type)
       \/ \E i \in 1..FewMem : MediaPublish(i)
       \/ \E i \in 1..FewMem : DocumentCreate(i)
       \/ \E i \in 1..FewMem : DocumentPublish(i)
       \/ \E i \in 1..FewMem, hasContent \in BOOLEAN : UpdateWrite(i, hasContent, FALSE, "http")
       \/ UpdatePublish
       \/ \E i \in 1..FewMem : RemoveMemory(i)
       \/ \E i \in 1..FewMem : RetryGet(i)
       \/ RetryReset
       \/ RetryPublish
       \/ \E t \in TaskIds : EnrichWorker(t)

SpecEnrich == Init /\ [][NextEnrich]_vars

\* recordings and videos uploaded, the audio of a video uploaded, the
\* retries and the transcription workers, over at most FewMem memories
NextVideo ==
       \/ \E i \in 1..FewMem, memory_type \in MediaTypes : MediaCreate(i, memory_type)
       \/ \E i \in 1..FewMem : MediaPublish(i)
       \/ \E i \in 1..FewMem : VideoCreate(i)
       \/ \E i \in 1..FewMem : VideoPublish(i)
       \/ \E i \in 1..FewMem : AudioGet(i)
       \/ \E i \in 1..FewMem : AudioWrite(i)
       \/ \E i \in 1..FewMem : AudioPublish(i)
       \/ \E i \in 1..FewMem : RetryGet(i)
       \/ \E i \in 1..FewMem : VideoRetryGet(i)
       \/ RetryReset
       \/ RetryPublish
       \/ \E t \in TaskIds : EnrichWorker(t)

SpecVideo == Init /\ [][NextVideo]_vars

\* process_memory_async: the steps of the worker of a web memory
WebWorker(t) ==
    \/ WorkerGet(t)
    \/ WorkerTags(t)
    \/ \E title \in BOOLEAN, summary \in BOOLEAN,
          embedding_summary \in BOOLEAN, tags \in BOOLEAN :
          WorkerGather(t, title, summary, embedding_summary, tags)
    \/ WorkerTitle(t)
    \/ WorkerSummary(t)
    \/ WorkerEmbSummary(t)
    \/ \E embedded \in BOOLEAN : WorkerEmbed(t, embedded)
    \/ WorkerAddTags(t)
    \/ WorkerFinal(t)
    \/ WorkerException(t)

\* Ingest and edit of one memory over both channels, the embedding call
\* succeeding or failing, and the memory's worker
NextIngest ==
       \/ \E i \in 1..FewMem, hasContent \in BOOLEAN, embedded \in BOOLEAN,
             via \in Channels : SaveCreate(0, i, "web", hasContent, embedded, via)
       \/ \E i \in 1..FewMem : SavePublish(i)
       \/ \E i \in 1..FewMem, hasContent \in BOOLEAN, embedded \in BOOLEAN,
             via \in Channels : UpdateWrite(i, hasContent, embedded, via)
       \/ UpdatePublish
       \/ \E t \in TaskIds : WebWorker(t)

SpecIngest == Init /\ [][NextIngest]_vars

\* Media and documents uploaded, cited by chat answers and deleted through
\* each of the delete routes
NextDelete ==
       \/ \E i \in 1..FewMem, memory_type \in MediaTypes : MediaCreate(i, memory_type)
       \/ \E i \in 1..FewMem : MediaPublish(i)
       \/ \E i \in 1..FewMem : DocumentCreate(i)
       \/ \E i \in 1..FewMem : DocumentPublish(i)
       \/ \E i \in 1..FewMem : RemoveMemory(i)
       \/ \E i \in 1..FewMem : DeleteMedia(i)
       \/ \E i \in 1..FewMem : DeleteDocument(i)
       \/ \E i \in 1..FewMem : ChatSearch(i)
       \/ ChatAnswer
       \/ \E t \in TaskIds : EnrichWorker(t)

SpecDelete == Init /\ [][NextDelete]_vars

\* Ingest of one url by overlapping requests over both channels
NextUrl ==
       \/ \E c \in Clients : UrlCheck(c)
       \/ \E c \in Clients, i \in MemIds, hasContent \in BOOLEAN,
             embedded \in BOOLEAN, via \in Channels :
             SaveCreate(c, i, "web", hasContent, embedded, via)
       \/ \E i \in MemIds : SavePublish(i)

SpecUrl == Init /\ [][NextUrl]_vars

\* graph reads and link mutations, at most MaxReq requests, over the saved
\* memories
NextCache ==
       \/ \E i \in MemIds : SaveMemory(i, TRUE, FALSE)
       \/ \E r \in ReqIds, include_isolated \in CacheFilters :
             GraphArrive(r, include_isolated)
       \/ \E r \in ReqIds, kind \in {"create", "delete", "batch"},
             p \in LinkEnds : LinkArrive(r, kind, p[1], p[2])
       \/ ExecRun
       \/ Resume
       \/ \E cache_key \in CacheKeys : CacheExpire(cache_key)

SpecCache == Init /\ [][NextCache]_vars

SpecStream == Init /\ [][NextStream]_vars

SpecExec == Init /\ [][NextExec]_vars

SpecBus == Init /\ [][NextBus]_vars

SpecConfig == Init /\ [][NextConfig]_vars

----------------------------------------------------------------------------
(***************************************************************************)
(* The job queue's claims.                                                 *)
(***************************************************************************)
JobRows == 1..Len(jobs)

\* C1: once a cancel request has set a job's status to cancelled, the worker
\* never marks the job completed afterwards: the status is cancelled in every
\* later state.
C1_CancelledStaysCancelled ==
    [][\A j \in JobRows :
          jobs[j].status = "cancelled" => jobs'[j].status = "cancelled"]_vars

\* C25: a job whose status is completed, failed or cancelled keeps that
\* status in every later state.
C25_TerminalAbsorbing ==
    [][\A j \in JobRows :
          jobs[j].status \in {"completed", "failed", "cancelled"}
              => jobs'[j].status = jobs[j].status]_vars

\* C28: a reembed worker that was started ends, whatever fails for whichever
\* memory, and its job then has a terminal status.
C28_WorkerTerminates ==
    \A j \in JobIds :
        (wpc[j] # "none")
            ~> (/\ wpc[j] = "done"
                /\ jobs[j].status \in {"completed", "failed", "cancelled"})

\* a worker has ended after a phase-2 batch in which every memory failed
C28_Witness ==
    \E j \in JobRows :
        /\ wpc[j] = "done"
        /\ jobs[j].status = "completed"
        /\ jobs[j].failed > 0
        /\ \E i \in MemIds : NeedsEmbedding(mem[i], current_model)

\* C2: at most one reembed job is pending or running at any time, under any
\* interleaving of concurrent POST /jobs/reembed calls.
C2_AtMostOneActiveJob == Cardinality(ActiveJobs(jobs)) <= 1

\* C9: in every reachable state of a reembed job, processed + failed <= total.
C9_CountsWithinTotal ==
    \A j \in JobRows : jobs[j].processed + jobs[j].failed <= jobs[j].total

\* C10: the stored progress never exceeds 99 while the job is not completed,
\* and it is 100 only when the status is completed.
C10_ProgressCappedUntilCompleted ==
    \A j \in JobRows :
        /\ jobs[j].status # "completed" => jobs[j].progress <= ProgressCap
        /\ jobs[j].progress = ProgressDone => jobs[j].status = "completed"

\* C11: the total that count_memories_needing_processing returned to a job
\* that ran to completion with no other change to the database equals the
\* number of memories the job counted as processed or failed.
C11_TotalIsWorkDone ==
    \A j \in JobRows :
        jobs[j].status = "completed"
            => jobs[j].processed + jobs[j].failed = jobs[j].total

\* C12: every memory with an embedding either carries the current model or
\* is selected by get_memories_needing_reembedding without a limit.
C12_StaleEmbeddingsSelected ==
    \A i \in MemIds :
        (mem[i].exists /\ mem[i].embedding)
            => \/ mem[i].embedding_model = current_model
               \/ \E k \in 1..Len(get_memories_needing_reembedding(NumMem)) :
                      get_memories_needing_reembedding(NumMem)[k] = i

\* C13: for every memory, the embedding is present if and only if the
\* embedding_model is present.
C13_EmbeddingIffModel ==
    \A i \in MemIds :
        mem[i].exists => (mem[i].embedding <=> mem[i].embedding_model # "none")

\* C16: neither selection query returns a memory whose processing_attempts
\* is 3 or more.
C16_ExhaustedNotSelected ==
    /\ \A k \in 1..Len(get_memories_without_embedding_summary(NumMem)) :
          mem[get_memories_without_embedding_summary(NumMem)[k]].processing_attempts
              < MaxAttempts
    /\ \A k \in 1..Len(get_memories_needing_reembedding(NumMem)) :
          mem[get_memories_needing_reembedding(NumMem)[k]].processing_attempts
              < MaxAttempts

\* C17: ingests of the same url, overlapping or not, never both create a
\* row: at most one memory is stored for the url.
C17_OneRowPerUrl ==
    Cardinality({i \in MemIds : mem[i].exists /\ mem[i].url}) <= 1

----------------------------------------------------------------------------
(***************************************************************************)
(* The link store's claims.                                                *)
(***************************************************************************)
ReverseRows(r) ==
    {q \in links : /\ q.source_memory_id = r.target_memory_id
                   /\ q.target_memory_id = r.source_memory_id}

\* C3: after any sequence of create_link, batch_create_links and delete_link,
\* every row A->B has exactly one row B->A, with the same link_type and the
\* same relevance_score.
C3_BidirectionalSymmetry ==
    \A r \in links :
        /\ Cardinality(ReverseRows(r)) = 1
        /\ \A q \in ReverseRows(r) :
              /\ q.link_type = r.link_type
              /\ q.relevance_score = r.relevance_score

----------------------------------------------------------------------------
(***************************************************************************)
(* The unlock gate's claim.                                                *)
(***************************************************************************)
\* C4: whenever the app is locked (no setup or unlock has succeeded since the
\* start or the last logout) a request to a path outside the public set is
\* answered 403, also after an unlock with a wrong password was rejected.
\* Stated for the requests that are not CORS preflights, carry the app
\* token and arrive while no setup or unlock is running.
C4_LockedAnswers403 ==
    (/\ last.path \in Paths \ PUBLIC_PATHS
     /\ last.method # "OPTIONS"
     /\ last.token_ok
     /\ last.locked
     /\ ~last.initializing) => last.status = 403

\* C14: no stored link row has source_memory_id = target_memory_id, and a
\* request to link a memory to itself is answered with an error by
\* create_link.
C14_NoSelfLink ==
    /\ \A r \in links : r.source_memory_id # r.target_memory_id
    /\ (answer.op = "create_link" /\ answer.source_id = answer.target_id)
           => answer.status >= 400

\* C15: a create_link for two memories that the table already links, in
\* either direction, is answered 409 and leaves the table as it was, with
\* exactly two rows between the two memories.
C15_SecondCreateConflicts ==
    (/\ answer.op = "create_link"
     /\ answer.source_id # answer.target_id
     /\ answer.found > 0)
        => /\ answer.status = 409
           /\ answer.unchanged
           /\ Cardinality(Joining(links, answer.source_id, answer.target_id)) = 2

\* a call in the other direction than the first was answered 409
C15_Witness ==
    /\ answer.op = "create_link"
    /\ answer.status = 409
    /\ answer.unchanged
    /\ \E r \in links :
          /\ r.id = 1
          /\ r.source_memory_id = answer.target_id
          /\ r.target_memory_id = answer.source_id

----------------------------------------------------------------------------
(***************************************************************************)
(* The claims about what a deleted memory leaves behind.                   *)
(***************************************************************************)
\* C18: after a memory with files has been deleted through any of the
\* delete routes, none of its files remains in the blob store.
C18_DeletedLeavesNoBlob == \A i \in deleted : i \notin blobs

\* C19: every MessageSource row cites a memory that exists.
C19_SourcesCiteExistingMemories == \A i \in sources : mem[i].exists

----------------------------------------------------------------------------
(***************************************************************************)
(* The claims about the events, the retry and the enrichment workers.      *)
(***************************************************************************)
\* C5: every event published on the bus reports a change that was committed;
\* no event is published for a write that did not take effect, such as an
\* update of a memory that was deleted meanwhile.
C5_EventsFollowPersistence == \A e \in events : e.committed

\* C7: a retry whose memory has the status processing at the conditional
\* UPDATE is rejected, changes nothing and starts no worker; a retry of a
\* memory with any other status sets it to pending and goes on to start the
\* worker.
C7_RetryResetAtomic ==
    rlast.memory_id # 0 =>
        /\ rlast.before = "processing" =>
              (rlast.rejected /\ rlast.after = "processing")
        /\ rlast.before \notin {"processing", "gone"} =>
              (~rlast.rejected /\ rlast.after = "pending")
        /\ rpc = "publish" => ~rlast.rejected

\* C8: every run of an enrichment worker that has terminated, whatever its
\* outcome, has published a MEMORY_UPDATED event for its memory.  Stated
\* for the runs whose memory still exists when they terminate.
C8_TerminalStatePublishes ==
    \A t \in TaskIds :
        (task[t].pc = "done" /\ mem[task[t].memory_id].exists)
            => task[t].published

\* the transcription workers of memory i that have been started and have
\* not ended
Transcribing(i) ==
    {t \in TaskIds : /\ task[t].kind = "voice"
                     /\ task[t].memory_id = i
                     /\ task[t].pc # "done"}

\* C26: at any time at most one transcription worker is running for a
\* memory, whatever the order of the uploads, the retries and the uploads of
\* extracted audio for it.
C26_OneTranscriptionWorker ==
    \A i \in MemIds : Cardinality(Transcribing(i)) <= 1

\* C27: a transcription worker that has set the status processing ends by
\* setting it to completed or failed, so a memory with no transcription
\* worker running does not have the status processing.
C27_NoOrphanProcessing ==
    \A i \in MemIds :
        (mem[i].exists /\ Transcribing(i) = {})
            => mem[i].transcription_status # "processing"

\* C29: video_processing_status changes only from pending_extraction to
\* extracting and from extracting to ready or failed; a video is created
\* with pending_extraction.
C29_VideoStatusPath ==
    [][\A i \in MemIds :
          LET old == mem[i].video_processing_status
              new == mem'[i].video_processing_status
          IN /\ (~mem[i].exists /\ mem'[i].exists /\ mem'[i].type = "video")
                    => new = "pending_extraction"
             /\ (mem[i].exists /\ mem'[i].exists /\ new # old)
                    => \/ old = "pending_extraction" /\ new = "extracting"
                       \/ old = "extracting" /\ new \in {"ready", "failed"}]_vars

\* C20: on ingest MEMORY_CREATED is published before the worker is
\* scheduled, so a memory whose worker an ingest route has started has its
\* MEMORY_CREATED event on the bus, and so has every memory with a
\* MEMORY_UPDATED event.
C20_CreatedBeforeWorker ==
    /\ \A t \in TaskIds :
          (task[t].kind # "none" /\ task[t].origin = "ingest")
              => \E e \in events : /\ e.type = "memory_created"
                                   /\ e.memory_id = task[t].memory_id
    /\ \A u \in events :
          u.type = "memory_updated"
              => \E e \in events : /\ e.type = "memory_created"
                                   /\ e.memory_id = u.memory_id

----------------------------------------------------------------------------
(***************************************************************************)
(* The analytics cache's claim.                                            *)
(***************************************************************************)
\* C6: once a link create, a link delete or a batch auto-link that created a
\* link has been answered, no entry of the cache and no graph answer served
\* from the cache afterwards was read before that mutation committed.
C6_NoStaleEntryAfterMutation ==
    /\ \A k \in CacheKeys : cache[k].present => cache[k].read_at >= completed
    /\ served.from_cache => served.read_at >= served.completed

\* a graph read that ran before a commit stored its entry after it, the
\* mutation has then been answered, and a graph request that arrived later
\* was answered with data read after the commit
C6_Witness ==
    /\ raced > 0
    /\ completed >= raced
    /\ served.completed >= raced
    /\ served.read_at >= served.completed

----------------------------------------------------------------------------
(***************************************************************************)
(* The chat stream's claims.                                               *)
(***************************************************************************)
Terminal == {"done", "error"}

\* C21: a stream yields one meta frame first, then token frames, then one
\* terminal frame and nothing after it: done on success, error on a
\* provider failure and after the error message has been persisted.
C21_FramesInOrder ==
    \A c \in Clients :
        LET f == stream[c].frames IN
        /\ \A k \in 1..Len(f) : (f[k] = "meta") <=> (k = 1)
        /\ \A k \in 1..Len(f) : f[k] \in Terminal => k = Len(f)
        /\ stream[c].pc = "end" => f[Len(f)] \in Terminal
        /\ (Len(f) > 0 /\ f[Len(f)] = "done") => ~stream[c].failed
        /\ (Len(f) > 0 /\ f[Len(f)] = "error")
               => stream[c].failed /\ stream[c].saved = <<"error">>

\* C30: a generator that ran to its end persisted exactly one assistant
\* message: the response if and only if it yielded a done frame, the error
\* text otherwise.
C30_OneAssistantMessage ==
    \A c \in Clients :
        stream[c].pc = "end"
            => /\ Len(stream[c].saved) = 1
               /\ (stream[c].saved[1] = "response")
                      <=> (stream[c].frames[Len(stream[c].frames)] = "done")

----------------------------------------------------------------------------
(***************************************************************************)
(* The claims about the executor, the event bus and the settings.          *)
(***************************************************************************)
\* C22: every database operation runs on the executor's one thread, so no
\* two database operations run at the same time, and the operations begin
\* in the order in which they were called.
C22_OneThreadInOrder ==
    /\ running["loop"] = 0
    /\ Cardinality({th \in DbThreads : running[th] # 0}) <= 1
    /\ \A a \in 1..Len(started), b \in 1..Len(started) :
          a < b => started[a] < started[b]

\* C23: no publish call fails, and a publish call that has returned has put
\* its event exactly once into the queue of every subscriber that was
\* registered when it was made; no queue holds an event twice.
C23_PublishReachesRegistered ==
    \A e \in EventIds :
        /\ calls[e].status # "failed"
        /\ calls[e].status = "done" =>
              \A q \in calls[e].registered : Count(q, e) = 1
        /\ \A q \in QueueIds : Count(q, e) <= 1

\* C24: the version counts the reloads, each reload raising it by one, and
\* every pair that get_settings_with_version has returned holds the
\* settings object installed by the reload that produced the pair's version.
C24_AtomicSnapshots ==
    /\ version = reloaded
    /\ \A t \in Threads : installed[thread[t].answer[2]] = thread[t].answer[1]

\* a snapshot taken after the last reload has returned that reload's object
\* and version
C24_Witness ==
    \E t \in Threads :
        /\ thread[t].pc = "idle"
        /\ thread[t].answer = <<MaxReloads, MaxReloads>>
        /\ version = MaxReloads

====
